---- MODULE Spec2Model ----
(***************************************************************************)
(* Model of the tezosprotocol wire codec: the zarith integer codec, the    *)
(* Base58Check envelope, the operation content codecs and the operation    *)
(* and signed-operation envelopes.                                         *)
(*                                                                         *)
(* Byte strings are sequences over 0..255.  Bit strings (the Go code works *)
(* on "0"/"1" text) are sequences over {0,1}, most significant bit first.  *)
(***************************************************************************)
EXTENDS Integers, Sequences, FiniteSets, TLC

VARIABLES
    zval,    \* zarith: the integer handed to the encoder
    zenc,    \* zarith: result of Encode / EncodeSigned
    zdec,    \* zarith: result of Decode / DecodeSigned on zenc
    op,      \* the Operation under construction: [Branch, Contents]
    signed,  \* what SignOperation returned for op
    single,  \* the single content handed to its own MarshalBinary
    wire,    \* the bytes produced or supplied: [src, out, data]
    res,     \* the decoder that ran on wire and what it returned: [fn, recv, out]
    call,    \* a library function called on its own: [fn, in, out]
    registry \* the Base58Check prefix table at run time: entries [id, payloadLength, prefixBytes]

zvars == <<zval, zenc, zdec>>

opvars == <<op, signed, single, wire, res>>

libvars == <<call, registry>>

vars == <<zval, zenc, zdec, op, signed, single, wire, res, call, registry>>

----------------------------------------------------------------------------
(* Bounds of the model *)

\* zarith inputs are drawn from -MaxZ..MaxZ plus the values the tests name
MaxZ == 4200

\* an Operation is built from at most MaxContents contents
MaxContents == 2

----------------------------------------------------------------------------
(* Generic helpers *)

\* With(v, F) is F(v): it names the value v inside F
With(v, F(_)) == F(v)

Rep(b, n) == [i \in 1..n |-> b]

Reverse(s) == [i \in 1..Len(s) |-> s[Len(s) + 1 - i]]

RECURSIVE Concat(_)
Concat(ss) == IF ss = <<>> THEN <<>> ELSE Head(ss) \o Concat(Tail(ss))

Abs(n) == IF n < 0 THEN 0 - n ELSE n

RECURSIVE Pow(_, _)
Pow(b, e) == IF e = 0 THEN 1 ELSE b * Pow(b, e - 1)

\* number of binary digits of n > 0 (0 for n = 0)
RECURSIVE BitLength(_)
BitLength(n) == IF n = 0 THEN 0 ELSE 1 + BitLength(n \div 2)

----------------------------------------------------------------------------
(* zarith *)

lengthZarithBitSegment == 7

lengthZarithBitSegmentWithSignFlag == lengthZarithBitSegment - 1

\* big.Int.Text(2) of a non-negative value: "0" for zero, no leading zeros
RECURSIVE Text2(_)
Text2(n) == IF n < 2 THEN <<n>> ELSE Text2(n \div 2) \o <<n % 2>>

\* big.Int.SetString(bits, 2) on a string of binary digits
RECURSIVE SetString2(_)
SetString2(bits) ==
    IF bits = <<>> THEN 0
    ELSE 2 * SetString2(SubSeq(bits, 1, Len(bits) - 1)) + bits[Len(bits)]

\* fmt.Sprintf("%08b", curByte)
Sprintf08b(b) == [i \in 1..8 |-> (b \div Pow(2, 8 - i)) % 2]

bitStringToBytes(bitstring) ==
    [k \in 1..(Len(bitstring) \div 8) |->
        SetString2(SubSeq(bitstring, 8 * (k - 1) + 1, 8 * k))]

ZOk(v) == [err |-> "", val |-> v]
ZErr(e) == [err |-> e, val |-> <<>>]

\* "Prepend a 1 bit to each segment but the last, and a 0 bit to the last"
ContinuationBits(segments) ==
    [i \in 1..Len(segments) |->
        IF i < Len(segments) THEN <<1>> \o segments[i] ELSE <<0>> \o segments[i]]

EncodePaddingBroken(numBits) ==
    lengthZarithBitSegment - (numBits % lengthZarithBitSegment)

EncodePadding(numBits) ==
    (lengthZarithBitSegment * numBits - numBits) % lengthZarithBitSegment

Encode(value) ==
    IF value < 0 THEN ZErr("cannot encode negative integer")
    ELSE
      LET valueBitstring == Text2(value)
          numPaddingBitsRequired == EncodePadding(Len(valueBitstring))
          paddedBitString == Rep(0, numPaddingBitsRequired) \o valueBitstring
          numSegments == Len(paddedBitString) \div lengthZarithBitSegment
          segments == [i \in 1..numSegments |->
                          SubSeq(paddedBitString,
                                 lengthZarithBitSegment * (i - 1) + 1,
                                 lengthZarithBitSegment * i)]
          outputBitString == Concat(ContinuationBits(Reverse(segments)))
      IN ZOk(bitStringToBytes(outputBitString))

\* the 7-bit segments of the padded bit string, collected from right to left
RECURSIVE PopSegments(_, _)
PopSegments(bits, n) ==
    IF n = 0 THEN <<>>
    ELSE <<SubSeq(bits, Len(bits) - lengthZarithBitSegment + 1, Len(bits))>>
         \o PopSegments(SubSeq(bits, 1, Len(bits) - lengthZarithBitSegment), n - 1)

EncodeSigned(value) ==
    IF value = 0 THEN ZOk(<<0>>)
    ELSE
      LET isNegative == value < 0
          signBit == IF isNegative THEN 1 ELSE 0
          valueBitstring == Text2(Abs(value))
          numValueBits == Len(valueBitstring)
          encodingFitsInOneByte == numValueBits <= lengthZarithBitSegmentWithSignFlag
          numPaddingBitsRequired ==
              IF encodingFitsInOneByte
              THEN lengthZarithBitSegmentWithSignFlag - numValueBits
              ELSE LET numBitsAfterFirstSegment ==
                           numValueBits - lengthZarithBitSegmentWithSignFlag
                   IN lengthZarithBitSegment
                        - (numBitsAfterFirstSegment % lengthZarithBitSegment)
          paddedBitString == Rep(0, numPaddingBitsRequired) \o valueBitstring
          firstSegment ==
              <<signBit>> \o SubSeq(paddedBitString,
                                    Len(paddedBitString) - lengthZarithBitSegmentWithSignFlag + 1,
                                    Len(paddedBitString))
          rest == SubSeq(paddedBitString, 1,
                         Len(paddedBitString) - lengthZarithBitSegmentWithSignFlag)
          numSevenBitSegments == Len(rest) \div 7
          segments == <<firstSegment>> \o PopSegments(rest, numSevenBitSegments)
          encodedBitString == Concat(ContinuationBits(segments))
      IN ZOk(bitStringToBytes(encodedBitString))

\* the 8-bit strings of the input with the continuation bit trimmed off each
TrimmedSegments(source) ==
    [i \in 1..Len(source) |-> Tail(Sprintf08b(source[i]))]

DecodeNoReverse(source) ==
    IF Len(source) = 0 THEN ZErr("expected non-empty byte array")
    ELSE ZOk(SetString2(Concat(TrimmedSegments(source))))

Decode(source) ==
    IF Len(source) = 0 THEN ZErr("expected non-empty byte array")
    ELSE
      LET segments == Reverse(TrimmedSegments(source))
          bitString == Concat(segments)
      IN ZOk(SetString2(bitString))

DecodeSigned(source) ==
    IF Len(source) = 0 THEN ZErr("expected non-empty byte array")
    ELSE
      LET trimmed == TrimmedSegments(source)
          isNegative == trimmed[1][1] = 1
          segments == Reverse([trimmed EXCEPT ![1] = Tail(trimmed[1])])
          bitString == Concat(segments)
      IN ZOk(IF isNegative THEN 0 - SetString2(bitString) ELSE SetString2(bitString))

----------------------------------------------------------------------------
(* Go slices.  A slice is its visible bytes b and the bytes x that follow   *)
(* them in the backing array (its spare capacity): s[:k] may reach into x, *)
(* s[k:] and s[i] may not.                                                  *)

Slice(bytes, spare) == [b |-> bytes, x |-> spare]

SLen(s) == Len(s.b)

SCap(s) == Len(s.b) + Len(s.x)

\* s[:k] panics unless k <= cap(s)
CanSliceTo(s, k) == k <= SCap(s)

SliceTo(s, k) ==
    LET all == s.b \o s.x
    IN [b |-> SubSeq(all, 1, k), x |-> SubSeq(all, k + 1, Len(all))]

\* s[k:] panics unless k <= len(s)
CanSliceFrom(s, k) == k <= SLen(s)

SliceFrom(s, k) == [b |-> SubSeq(s.b, k + 1, Len(s.b)), x |-> s.x]

----------------------------------------------------------------------------
(* Results.  st is "ok", "err" (an error value was returned), "panic" (a    *)
(* runtime fault is unwinding) or "oob" (the normalized out-of-bounds       *)
(* error).  val is meaningful only when st = "ok".                         *)

Ok(v) == [st |-> "ok", val |-> v, msg |-> ""]

Err(m) == [st |-> "err", val |-> <<>>, msg |-> m]

Panic(m) == [st |-> "panic", val |-> <<>>, msg |-> m]

OutOfRange == Panic("index out of range")

NoResult == [st |-> "none", val |-> <<>>, msg |-> ""]

\* xerrors.Errorf("...: %w", err): the failure keeps its class
Wrap(m, r) == [r EXCEPT !.msg = m]

\* x, err := f(); if err != nil { return wrapped err }; the rest, F, sees x.
\* A fault that is unwinding keeps its own text.
Try(r, m, F(_)) ==
    IF r.st = "ok" THEN F(r)
    ELSE [st |-> r.st, val |-> <<>>, msg |-> IF r.st = "panic" THEN r.msg ELSE m]

\* x, err := f(); if err != nil { return err }; the rest, F, sees x
Pass(r, F(_)) ==
    IF r.st = "ok" THEN F(r) ELSE [st |-> r.st, val |-> <<>>, msg |-> r.msg]

\* b, err := f(); if err != nil { return wrapped err }; buf.Write(b)
Put(buf, r, m) ==
    IF buf.st # "ok" THEN buf
    ELSE IF r.st # "ok" THEN [st |-> r.st, val |-> <<>>, msg |-> m]
    ELSE Ok(buf.val \o r.val)

\* a result of the zarith package as a result of this one
ZRes(z) == IF z.err = "" THEN Ok(z.val) ELSE Err(z.err)

----------------------------------------------------------------------------
(* Field lengths (constants.go) *)

PubKeyHashLen == 20

TaggedPubKeyHashLen == PubKeyHashLen + 1

PubKeyLenEd25519 == 32

PubKeyLenSecp256k1 == 33

PubKeyLenP256 == 33

ContractHashLen == 20

ContractIDLen == 22

BlockHashLen == 32

OperationHashLen == 32

OperationSignatureLen == 64

ContentsTagRevelation == 107

ContentsTagTransaction == 108

ContentsTagOrigination == 109

ContentsTagDelegation == 110

ContentsTagEndorsement == 0

ContractIDTagImplicit == 0

ContractIDTagOriginated == 1

PubKeyHashTagEd25519 == 0

PubKeyHashTagSecp256k1 == 1

PubKeyHashTagP256 == 2

PubKeyTagEd25519 == 0

PubKeyTagSecp256k1 == 1

PubKeyTagP256 == 2

OperationWatermark == 3

AccountTypeImplicit == "implicit"

AccountTypeOriginated == "originated"

----------------------------------------------------------------------------
(* Base58Check.  A Base58Check string is represented by the bytes its       *)
(* base-58 digits stand for (prefix bytes, payload, 4 checksum bytes); the *)
(* empty sequence stands for a string that is not base-58 at all.          *)

\* the table built by the registerBase58CheckPrefix calls, in call order;
\* entry k (counting from 0) has id k
base58CheckPrefixInfos ==
    << [name |-> "BlockHash",                  payloadLength |-> 32, prefixBytes |-> <<1, 52>>],
       [name |-> "OperationHash",              payloadLength |-> 32, prefixBytes |-> <<5, 116>>],
       [name |-> "OperationListHash",          payloadLength |-> 32, prefixBytes |-> <<133, 233>>],
       [name |-> "OperationListListHash",      payloadLength |-> 32, prefixBytes |-> <<29, 159, 109>>],
       [name |-> "ProtocolHash",               payloadLength |-> 32, prefixBytes |-> <<2, 170>>],
       [name |-> "ContextHash",                payloadLength |-> 32, prefixBytes |-> <<79, 199>>],
       [name |-> "Ed25519PublicKeyHash",       payloadLength |-> 20, prefixBytes |-> <<6, 161, 159>>],
       [name |-> "Secp256k1PublicKeyHash",     payloadLength |-> 20, prefixBytes |-> <<6, 161, 161>>],
       [name |-> "P256PublicKeyHash",          payloadLength |-> 20, prefixBytes |-> <<6, 161, 164>>],
       [name |-> "CryptoboxPublicKeyHash",     payloadLength |-> 16, prefixBytes |-> <<153, 103>>],
       [name |-> "Ed25519Seed",                payloadLength |-> 32, prefixBytes |-> <<13, 15, 58, 7>>],
       [name |-> "Ed25519PublicKey",           payloadLength |-> 32, prefixBytes |-> <<13, 15, 37, 217>>],
       [name |-> "Secp256k1SecretKey",         payloadLength |-> 32, prefixBytes |-> <<17, 162, 224, 201>>],
       [name |-> "P256SecretKey",              payloadLength |-> 32, prefixBytes |-> <<16, 81, 238, 189>>],
       [name |-> "Ed25519EncryptedSeed",       payloadLength |-> 56, prefixBytes |-> <<7, 90, 60, 179, 41>>],
       [name |-> "Secp256k1EncryptedSecretKey", payloadLength |-> 56, prefixBytes |-> <<9, 237, 241, 174, 150>>],
       [name |-> "P256EncryptedSecretKey",     payloadLength |-> 56, prefixBytes |-> <<9, 48, 57, 115, 171>>],
       [name |-> "Secp256k1PublicKey",         payloadLength |-> 33, prefixBytes |-> <<3, 254, 226, 86>>],
       [name |-> "P256PublicKey",              payloadLength |-> 33, prefixBytes |-> <<3, 178, 139, 127>>],
       [name |-> "Secp256k1Scalar",            payloadLength |-> 33, prefixBytes |-> <<38, 248, 136>>],
       [name |-> "Secp256k1Element",           payloadLength |-> 33, prefixBytes |-> <<5, 92, 0>>],
       [name |-> "Ed25519SecretKey",           payloadLength |-> 64, prefixBytes |-> <<43, 246, 78, 7>>],
       [name |-> "Ed25519Signature",           payloadLength |-> 64, prefixBytes |-> <<9, 245, 205, 134, 18>>],
       [name |-> "Secp256k1Signature",         payloadLength |-> 64, prefixBytes |-> <<13, 115, 101, 19, 63>>],
       [name |-> "P256Signature",              payloadLength |-> 64, prefixBytes |-> <<54, 240, 44, 52>>],
       [name |-> "GenericSignature",           payloadLength |-> 64, prefixBytes |-> <<4, 130, 43>>],
       [name |-> "ChainID",                    payloadLength |-> 4,  prefixBytes |-> <<87, 82, 0>>],
       [name |-> "ContractHash",               payloadLength |-> 20, prefixBytes |-> <<2, 90, 121>>] >>

\* AllBase58CheckPrefixes: the ids in registration order
\* registerBase58CheckPrefix numbering every entry one too high
RegisterEntryFromOne(reg, info) ==
    Append(reg, [id |-> Len(reg) + 1, payloadLength |-> info.payloadLength,
                 prefixBytes |-> info.prefixBytes])

\* registerBase58CheckPrefix: the table with info added under the next id
RegisterEntry(reg, info) ==
    Append(reg, [id |-> Len(reg), payloadLength |-> info.payloadLength,
                 prefixBytes |-> info.prefixBytes])

\* the table after the first k registerBase58CheckPrefix calls
RECURSIVE RegisterFirst(_)
RegisterFirst(k) ==
    IF k = 0 THEN <<>>
    ELSE RegisterEntry(RegisterFirst(k - 1), base58CheckPrefixInfos[k])

AllBase58CheckPrefixes == [k \in 1..Len(base58CheckPrefixInfos) |-> k - 1]

\* the id registerBase58CheckPrefix returned for the named entry
Registered(name) ==
    CHOOSE id \in 0..(Len(base58CheckPrefixInfos) - 1) :
        base58CheckPrefixInfos[id + 1].name = name

PrefixBlockHash == Registered("BlockHash")
PrefixOperationHash == Registered("OperationHash")
PrefixEd25519PublicKeyHash == Registered("Ed25519PublicKeyHash")
PrefixSecp256k1PublicKeyHash == Registered("Secp256k1PublicKeyHash")
PrefixP256PublicKeyHash == Registered("P256PublicKeyHash")
PrefixEd25519PublicKey == Registered("Ed25519PublicKey")
PrefixSecp256k1PublicKey == Registered("Secp256k1PublicKey")
PrefixP256PublicKey == Registered("P256PublicKey")
PrefixSecp256k1SecretKey == Registered("Secp256k1SecretKey")
PrefixP256SecretKey == Registered("P256SecretKey")
PrefixEd25519SecretKey == Registered("Ed25519SecretKey")
PrefixEd25519Signature == Registered("Ed25519Signature")
PrefixSecp256k1Signature == Registered("Secp256k1Signature")
PrefixP256Signature == Registered("P256Signature")
PrefixGenericSignature == Registered("GenericSignature")
PrefixContractHash == Registered("ContractHash")

PayloadLength(b) == base58CheckPrefixInfos[b + 1].payloadLength

PrefixBytes(b) == base58CheckPrefixInfos[b + 1].prefixBytes

\* stand-in for a cryptographic digest of n bytes (sha256.Sum256,
\* blake2b.Sum256): a deterministic function of every input byte and its
\* position
RECURSIVE Mix(_, _, _)
Mix(input, lo, hi) ==
    IF lo > hi THEN 17
    ELSE IF lo = hi THEN (31 * input[lo] + lo) % 65521
    ELSE LET mid == (lo + hi) \div 2
         IN (131 * Mix(input, lo, mid) + Mix(input, mid + 1, hi) + 7) % 65521

Digest(input, n) ==
    LET h == Mix(input, 1, Len(input))
    IN [i \in 1..n |-> (h \div (1 + (i % 7)) + 37 * i) % 256]

checksum(input) == SubSeq(Digest(Digest(input, 32), 32), 1, 4)

\* Base58CheckEncode leaving the prefix bytes out of the encoded string
Base58CheckEncodeNoPrefix(b58Prefix, input) ==
    LET lengthExpected == PayloadLength(b58Prefix)
    IN IF Len(input) # lengthExpected
       THEN Err("unexpected length when encoding base58 input")
       ELSE Ok(input \o checksum(input))

Base58CheckEncode(b58Prefix, input) ==
    LET lengthExpected == PayloadLength(b58Prefix)
    IN IF Len(input) # lengthExpected
       THEN Err("unexpected length when encoding base58 input")
       ELSE LET payload == PrefixBytes(b58Prefix) \o input
            IN Ok(payload \o checksum(payload))

HasPrefix(s, prefix) ==
    /\ Len(s) >= Len(prefix)
    /\ SubSeq(s, 1, Len(prefix)) = prefix

\* the result of a successful Base58CheckDecode
B58(prefix, payload) == [prefix |-> prefix, payload |-> payload]

\* Base58CheckDecode that never compares the checksum
Base58CheckDecodeNoChecksum(input) ==
    IF Len(input) < 5 THEN Err("not valid base58check")
    ELSE
      With(SubSeq(input, 1, Len(input) - 4), LAMBDA body :
        With({k \in 1..Len(AllBase58CheckPrefixes) :
                 HasPrefix(body, PrefixBytes(AllBase58CheckPrefixes[k]))},
             LAMBDA matching :
          IF matching = {} THEN Err("unknown base58check prefix")
          ELSE
            With(AllBase58CheckPrefixes[CHOOSE k \in matching : \A j \in matching : k <= j],
                 LAMBDA b58prefix :
              IF Len(body) - Len(PrefixBytes(b58prefix)) # PayloadLength(b58prefix)
              THEN Err("unexpected length when decoding base58 input")
              ELSE Ok(B58(b58prefix,
                          SubSeq(body, Len(PrefixBytes(b58prefix)) + 1, Len(body)))))))

Base58CheckDecode(input) ==
    IF Len(input) < 5 THEN Err("not valid base58check")
    ELSE IF checksum(SubSeq(input, 1, Len(input) - 4))
               # SubSeq(input, Len(input) - 3, Len(input))
    THEN Err("b58check checksum failed")
    ELSE
      With(SubSeq(input, 1, Len(input) - 4), LAMBDA body :
        With({k \in 1..Len(AllBase58CheckPrefixes) :
                 HasPrefix(body, PrefixBytes(AllBase58CheckPrefixes[k]))},
             LAMBDA matching :
          IF matching = {} THEN Err("unknown base58check prefix")
          ELSE
            With(AllBase58CheckPrefixes[CHOOSE k \in matching : \A j \in matching : k <= j],
                 LAMBDA b58prefix :
              IF Len(body) - Len(PrefixBytes(b58prefix)) # PayloadLength(b58prefix)
              THEN Err("unexpected length when decoding base58 input")
              ELSE Ok(B58(b58prefix,
                          SubSeq(body, Len(PrefixBytes(b58prefix)) + 1, Len(body)))))))

----------------------------------------------------------------------------
(* BranchID, ContractID, PublicKey, Signature: Base58Check strings *)

BranchID_MarshalBinary(b) ==
    With(Base58CheckDecode(b), LAMBDA d :
      IF d.st # "ok" THEN d
      ELSE IF d.val.prefix # PrefixBlockHash
      THEN Err("unexpected base58check prefix for branch ID")
      ELSE Ok(d.val.payload))

BranchID_UnmarshalBinary(data) ==
    IF Len(data) # BlockHashLen THEN Err("expect branch ID to be 32 bytes")
    ELSE Base58CheckEncode(PrefixBlockHash, data)

IsPubKeyHashPrefix(p) ==
    p \in {PrefixEd25519PublicKeyHash, PrefixSecp256k1PublicKeyHash, PrefixP256PublicKeyHash}

ContractID_MarshalBinary(c) ==
    With(Base58CheckDecode(c), LAMBDA d :
      IF d.st # "ok" THEN d
      ELSE IF IsPubKeyHashPrefix(d.val.prefix)
      THEN IF Len(d.val.payload) # PubKeyHashLen
           THEN Err("expected address to have 20 bytes for PKH")
           ELSE Ok(<<ContractIDTagImplicit,
                     IF d.val.prefix = PrefixEd25519PublicKeyHash THEN PubKeyHashTagEd25519
                     ELSE IF d.val.prefix = PrefixSecp256k1PublicKeyHash
                     THEN PubKeyHashTagSecp256k1
                     ELSE PubKeyHashTagP256>> \o d.val.payload)
      ELSE IF d.val.prefix = PrefixContractHash
      THEN IF Len(d.val.payload) # ContractHashLen
           THEN Err("saw wrong length contract hash")
           ELSE Ok(<<ContractIDTagOriginated>> \o d.val.payload \o <<0>>)
      ELSE Err("unexpected base58check prefix"))

\* ContractID.UnmarshalBinary without the 21-byte tagged public-key-hash form
ContractID_UnmarshalBinaryFullOnly(data) ==
    IF Len(data) # ContractIDLen
    THEN Err("expected 22 bytes for contract ID or 21 bytes for tagged public key hash")
    ELSE IF data[1] = ContractIDTagImplicit
    THEN IF data[2] = PubKeyHashTagEd25519
         THEN Base58CheckEncode(PrefixEd25519PublicKeyHash, SubSeq(data, 3, Len(data)))
         ELSE IF data[2] = PubKeyHashTagSecp256k1
         THEN Base58CheckEncode(PrefixSecp256k1PublicKeyHash, SubSeq(data, 3, Len(data)))
         ELSE IF data[2] = PubKeyHashTagP256
         THEN Base58CheckEncode(PrefixP256PublicKeyHash, SubSeq(data, 3, Len(data)))
         ELSE Err("unexpected pub_key_hash tag")
    ELSE IF data[1] = ContractIDTagOriginated
    THEN Base58CheckEncode(PrefixContractHash, SubSeq(data, 2, 1 + ContractHashLen))
    ELSE Err("unexpected contract ID tag")

\* data is the byte sequence handed in; only its length and bytes are read
ContractID_UnmarshalBinary(data) ==
    IF Len(data) \notin {ContractIDLen, TaggedPubKeyHashLen}
    THEN Err("expected 22 bytes for contract ID or 21 bytes for tagged public key hash")
    ELSE
      LET full == IF Len(data) = ContractIDLen THEN data
                  ELSE <<ContractIDTagImplicit>> \o data
          contractIDTag == IF Len(data) = ContractIDLen THEN data[1]
                           ELSE ContractIDTagImplicit
      IN IF contractIDTag = ContractIDTagImplicit
         THEN LET pubKeyHashTag == full[2]
                  pubKeyHash == SubSeq(full, 3, Len(full))
              IN IF pubKeyHashTag = PubKeyHashTagEd25519
                 THEN Base58CheckEncode(PrefixEd25519PublicKeyHash, pubKeyHash)
                 ELSE IF pubKeyHashTag = PubKeyHashTagSecp256k1
                 THEN Base58CheckEncode(PrefixSecp256k1PublicKeyHash, pubKeyHash)
                 ELSE IF pubKeyHashTag = PubKeyHashTagP256
                 THEN Base58CheckEncode(PrefixP256PublicKeyHash, pubKeyHash)
                 ELSE Err("unexpected pub_key_hash tag")
         ELSE IF contractIDTag = ContractIDTagOriginated
         THEN Base58CheckEncode(PrefixContractHash, SubSeq(full, 2, 1 + ContractHashLen))
         ELSE Err("unexpected contract ID tag")

AccountType(c) ==
    With(Base58CheckDecode(c), LAMBDA d :
      IF d.st # "ok" THEN Wrap("invalid base58check", d)
      ELSE IF IsPubKeyHashPrefix(d.val.prefix) THEN Ok(AccountTypeImplicit)
      ELSE IF d.val.prefix = PrefixContractHash THEN Ok(AccountTypeOriginated)
      ELSE Err("unknown contract type"))

\* a mutant of EncodePubKeyHash that lets originated accounts through and
\* keeps the leading contract-id tag
EncodePubKeyHashUnchecked(c) == ContractID_MarshalBinary(c)

EncodePubKeyHash(c) ==
    With(AccountType(c), LAMBDA accountType :
      IF accountType.st # "ok" THEN accountType
      ELSE IF accountType.val # AccountTypeImplicit
      THEN Err("contract ID does not represent an implicit account")
      ELSE
        With(Base58CheckDecode(c), LAMBDA d :
          IF d.st # "ok" THEN d
          ELSE IF IsPubKeyHashPrefix(d.val.prefix)
          THEN With(ContractID_MarshalBinary(c), LAMBDA binaryEncoded :
                 IF binaryEncoded.st # "ok" THEN binaryEncoded
                 ELSE Ok(Tail(binaryEncoded.val)))
          ELSE Err("can't infer pubkeyhash")))

\* the x coordinates that lie on the curve (stand-in for the curve equation
\* having a solution)
CurveXs == {Rep(51, 31) \o <<4>>, Rep(52, 31) \o <<9>>}

\* stand-in for the two y coordinates of the curve points with coordinate x:
\* one even, one odd
CurveY(x, odd) == Digest(<<102>> \o x, 31) \o <<IF odd THEN 201 ELSE 200>>

\* btcec.PublicKey.SerializeCompressed: 0x02 or 0x03 by the parity of y, then x
SerializeCompressed(x, y) == <<IF y[Len(y)] % 2 = 1 THEN 3 ELSE 2>> \o x

\* btcec.ParsePubKey of a 33-byte compressed key, then ToECDSA
ParsePubKey(b) ==
    IF Len(b) # 33 \/ b[1] \notin {2, 3} THEN Err("invalid public key")
    ELSE IF Tail(b) \notin CurveXs THEN Err("invalid public key: x coordinate is not on the curve")
    ELSE Ok([type |-> "*ecdsa.PublicKey", curve |-> "S256",
             X |-> Tail(b), Y |-> CurveY(Tail(b), b[1] = 3)])

\* cryptoPubKey is a crypto.PublicKey: its dynamic type and, by type, its
\* bytes or its curve and coordinates
NewPublicKeyFromCryptoPublicKey(cryptoPubKey) ==
    IF cryptoPubKey.type = "ed25519.PublicKey"
    THEN Base58CheckEncode(PrefixEd25519PublicKey, cryptoPubKey.key)
    ELSE IF cryptoPubKey.type = "ecdsa.PublicKey"
    THEN IF cryptoPubKey.curve = "S256"
         THEN Base58CheckEncode(PrefixSecp256k1PublicKey,
                                SerializeCompressed(cryptoPubKey.X, cryptoPubKey.X))
         ELSE IF cryptoPubKey.curve = "P256"
         THEN Base58CheckEncode(PrefixP256PublicKey,
                                SerializeCompressed(cryptoPubKey.X, cryptoPubKey.X))
         ELSE Err("unsupported curve")
    ELSE Err("unsupported public key type")

\* PublicKey.CryptoPublicKey that also parses compressed P256 keys
CryptoPublicKeyAnyCurve(p) ==
    Pass(Base58CheckDecode(p), LAMBDA d :
      IF d.val.prefix = PrefixEd25519PublicKey
      THEN Ok([type |-> "ed25519.PublicKey", key |-> d.val.payload])
      ELSE IF d.val.prefix \in {PrefixSecp256k1PublicKey, PrefixP256PublicKey}
      THEN ParsePubKey(d.val.payload)
      ELSE Err("unexpected base58check prefix"))

CryptoPublicKey(p) ==
    Pass(Base58CheckDecode(p), LAMBDA d :
      IF d.val.prefix = PrefixEd25519PublicKey
      THEN Ok([type |-> "ed25519.PublicKey", key |-> d.val.payload])
      ELSE IF d.val.prefix = PrefixSecp256k1PublicKey
      THEN ParsePubKey(d.val.payload)
      ELSE IF d.val.prefix = PrefixP256PublicKey
      THEN Err("unable to deserialize compressed P256 keys")
      ELSE Err("unexpected base58check prefix"))

PublicKey_MarshalBinary(p) ==
    With(Base58CheckDecode(p), LAMBDA d :
      IF d.st # "ok" THEN d
      ELSE IF d.val.prefix \notin {PrefixEd25519PublicKey, PrefixSecp256k1PublicKey,
                                   PrefixP256PublicKey}
      THEN Err("unexpected base58check prefix")
      ELSE
        LET expectedPkLength ==
                IF d.val.prefix = PrefixEd25519PublicKey THEN PubKeyLenEd25519
                ELSE IF d.val.prefix = PrefixSecp256k1PublicKey THEN PubKeyLenSecp256k1
                ELSE PubKeyLenP256
            tag == IF d.val.prefix = PrefixEd25519PublicKey THEN PubKeyTagEd25519
                   ELSE IF d.val.prefix = PrefixSecp256k1PublicKey THEN PubKeyTagSecp256k1
                   ELSE PubKeyTagP256
        IN IF Len(d.val.payload) # expectedPkLength
           THEN Err("unexpected public key length")
           ELSE Ok(<<tag>> \o d.val.payload))

PublicKey_UnmarshalBinary(data) ==
    IF Len(data) < 1 THEN Err("too few bytes to unmarshal public_key")
    ELSE
      LET pubKeyTag == data[1]
          pubKey == Tail(data)
      IN IF pubKeyTag \notin {PubKeyTagEd25519, PubKeyTagSecp256k1, PubKeyTagP256}
         THEN Err("invalid public_key tag")
         ELSE
           LET expectedLength ==
                   IF pubKeyTag = PubKeyTagEd25519 THEN PubKeyLenEd25519
                   ELSE IF pubKeyTag = PubKeyTagSecp256k1 THEN PubKeyLenSecp256k1
                   ELSE PubKeyLenP256
               base58checkPrefix ==
                   IF pubKeyTag = PubKeyTagEd25519 THEN PrefixEd25519PublicKey
                   ELSE IF pubKeyTag = PubKeyTagSecp256k1 THEN PrefixSecp256k1PublicKey
                   ELSE PrefixP256PublicKey
           IN IF Len(pubKey) < expectedLength
              THEN Err("too few bytes to unmarshal public_key")
              ELSE Base58CheckEncode(base58checkPrefix, SubSeq(pubKey, 1, expectedLength))

IsSignaturePrefix(p) ==
    p \in {PrefixEd25519Signature, PrefixP256Signature, PrefixSecp256k1Signature,
           PrefixGenericSignature}

Signature_MarshalBinary(sig) ==
    With(Base58CheckDecode(sig), LAMBDA d :
      IF d.st # "ok" THEN Wrap("failed to marshal signature", d)
      ELSE IF IsSignaturePrefix(d.val.prefix) THEN Ok(d.val.payload)
      ELSE Err("unexpected base58check prefix for signature"))

----------------------------------------------------------------------------
(* Fixed-width integers, booleans, the recover handler *)

\* an optional field: <<>> is nil, <<v>> is a pointer to v
Nil == <<>>

Some(v) == <<v>>

\* binary.Write(buf, binary.BigEndian, uint32(n)) for 0 <= n < 2^31
Uint32Bytes(n) ==
    <<(n \div 16777216) % 256, (n \div 65536) % 256, (n \div 256) % 256, n % 256>>

\* the uint32 held in 4 big-endian bytes; values of 2^31 and more, which no
\* input of the model can hold that many bytes for, are read as 2^31 - 1
Uint32Value(bs) ==
    IF bs[1] >= 128 THEN 2147483647
    ELSE ((bs[1] * 256 + bs[2]) * 256 + bs[3]) * 256 + bs[4]

\* binary.Write(buf, binary.BigEndian, level) for an int32
Int32Bytes(level) ==
    IF level >= 0 THEN Uint32Bytes(level)
    ELSE LET low == level + 2147483647 + 1
             bs == Uint32Bytes(low)
         IN <<bs[1] + 128, bs[2], bs[3], bs[4]>>

\* binary.Read(buf, binary.BigEndian, &ret) for an int32: needs 4 bytes
readInt32(data) ==
    IF Len(data) < 4 THEN Err("EOF")
    ELSE IF data[1] < 128 THEN Ok(Uint32Value(SubSeq(data, 1, 4)))
    ELSE Ok(Uint32Value(<<data[1] - 128, data[2], data[3], data[4]>>) - 2147483647 - 1)

serializeBoolean(b) == IF b THEN 255 ELSE 0

deserializeBoolean(b) ==
    IF b = 0 THEN Ok(FALSE)
    ELSE IF b = 255 THEN Ok(TRUE)
    ELSE Err("not a valid boolean encoding")

\* a recover handler that knows index faults only
catchIndexOutOfRange(r) ==
    IF r.st = "panic" /\ r.msg = "index out of range"
    THEN [st |-> "oob", val |-> <<>>, msg |-> "out of bounds exception while parsing operation"]
    ELSE r

\* the deferred recover of every decoder: a fault whose text holds
\* "out of range" becomes the normalized error, any other fault goes on
\* unwinding.  (err is nil wherever a decoder can fault, so the handler's
\* "if err == nil" guard never keeps it from recovering.)
catchOutOfRangeExceptions(r) ==
    IF r.st = "panic" /\ r.msg \in {"index out of range", "slice bounds out of range"}
    THEN [st |-> "oob", val |-> <<>>, msg |-> "out of bounds exception while parsing operation"]
    ELSE r

----------------------------------------------------------------------------
(* zarith.ReadNext *)

\* ReadNext stopping at the last byte whose high bit is clear
ReadNextLast(byteStream) ==
    With({n \in 1..Len(byteStream) : byteStream[n] < 128}, LAMBDA ends :
      IF ends = {}
      THEN [st |-> "err", val |-> 0, n |-> 0 - 1,
            msg |-> "exhausted input while searching for end of next zarith number"]
      ELSE With(CHOOSE k \in ends : \A j \in ends : k >= j, LAMBDA n :
             With(Decode(SubSeq(byteStream, 1, n)), LAMBDA number :
               [st |-> IF number.err = "" THEN "ok" ELSE "err",
                val |-> number.val, n |-> n, msg |-> number.err])))

\* result of ReadNext: the number and the count of bytes read
ReadNext(byteStream) ==
    With({n \in 1..Len(byteStream) : byteStream[n] < 128}, LAMBDA ends :
      IF ends = {}
      THEN [st |-> "err", val |-> 0, n |-> 0 - 1,
            msg |-> "exhausted input while searching for end of next zarith number"]
      ELSE With(CHOOSE k \in ends : \A j \in ends : k <= j, LAMBDA n :
             With(Decode(SubSeq(byteStream, 1, n)), LAMBDA number :
               [st |-> IF number.err = "" THEN "ok" ELSE "err",
                val |-> number.val, n |-> n, msg |-> number.err])))

\* result of ReadNextSigned: the number and the count of bytes read
ReadNextSigned(byteStream) ==
    With({n \in 1..Len(byteStream) : byteStream[n] < 128}, LAMBDA ends :
      IF ends = {}
      THEN [st |-> "err", val |-> 0, n |-> 0 - 1,
            msg |-> "exhausted input while searching for end of next zarith number"]
      ELSE With(CHOOSE k \in ends : \A j \in ends : k <= j, LAMBDA n :
             With(DecodeSigned(SubSeq(byteStream, 1, n)), LAMBDA number :
               [st |-> IF number.err = "" THEN "ok" ELSE "err",
                val |-> number.val, n |-> n, msg |-> number.err])))

----------------------------------------------------------------------------
(* ContractScript, Entrypoint, TransactionParameters *)

maxUint30 == 1073741823

ContractScript_MarshalBinary(c) ==
    IF Len(c.Code) > maxUint30 THEN Err("script code cannot exceed uint30_max")
    ELSE IF Len(c.Storage) > maxUint30 THEN Err("script storage cannot exceed uint30_max")
    ELSE Ok(Uint32Bytes(Len(c.Code)) \o c.Code \o Uint32Bytes(Len(c.Storage)) \o c.Storage)

\* bytes.Reader over data at offset i (bytes already read): binary.Read of a
\* uint32, then Read into a buffer of that many bytes.  Read returns io.EOF
\* when the reader is at its end, even for an empty buffer.
ReadLengthPrefixed(data, i) ==
    IF Len(data) - i < 4
    THEN [st |-> "err", val |-> <<>>, i |-> i, msg |-> "failed to read length"]
    ELSE
      With(Uint32Value(SubSeq(data, i + 1, i + 4)), LAMBDA declared :
        IF i + 4 >= Len(data)
        THEN [st |-> "err", val |-> <<>>, i |-> i + 4, msg |-> "failed to read: EOF"]
        ELSE IF declared > Len(data) - (i + 4)
        THEN [st |-> "err", val |-> <<>>, i |-> Len(data), msg |-> "failed to read"]
        ELSE [st |-> "ok", val |-> SubSeq(data, i + 5, i + 4 + declared),
              i |-> i + 4 + declared, msg |-> ""])

ContractScript_UnmarshalBinary(data) ==
    With(ReadLengthPrefixed(data, 0), LAMBDA code :
      IF code.st # "ok" THEN Err(code.msg)
      ELSE With(ReadLengthPrefixed(data, code.i), LAMBDA storage :
             IF storage.st # "ok" THEN Err(storage.msg)
             ELSE Ok([Code |-> code.val, Storage |-> storage.val])))

\* make([]byte, length) at offset i of the input, once the 4 length bytes
\* are read and before Read is called: the size of the buffer, and how many
\* bytes of input are left behind the length
BufferMade(data, i) ==
    IF Len(data) - i < 4 THEN <<>>
    ELSE <<[size |-> Uint32Value(SubSeq(data, i + 1, i + 4)),
            remaining |-> Len(data) - (i + 4)]>>

\* the buffers ContractScript.UnmarshalBinary makes on an input: c.Code, and
\* c.Storage when the code was read
ContractScript_BuffersMade(data) ==
    With(ReadLengthPrefixed(data, 0), LAMBDA code :
      BufferMade(data, 0) \o (IF code.st = "ok" THEN BufferMade(data, code.i) ELSE <<>>))

EntrypointTagDefault == 0

EntrypointTagRoot == 1

EntrypointTagDo == 2

EntrypointTagSetDelegate == 3

EntrypointTagRemoveDelegate == 4

EntrypointTagNamed == 255

\* Preset entrypoints (those with an implicit name)
EntrypointDefault == [tag |-> EntrypointTagDefault, name |-> <<>>]

EntrypointRoot == [tag |-> EntrypointTagRoot, name |-> <<>>]

EntrypointDo == [tag |-> EntrypointTagDo, name |-> <<>>]

EntrypointSetDelegate == [tag |-> EntrypointTagDefault, name |-> <<>>]

EntrypointRemoveDelegate == [tag |-> EntrypointTagRemoveDelegate, name |-> <<>>]

\* NewNamedEntrypoint: name is a byte string
NewNamedEntrypoint(name) ==
    IF Len(name) > 255 THEN Err("entrypoint name exceeds maximum length")
    ELSE Ok([tag |-> EntrypointTagNamed, name |-> name])

\* Entrypoint.Name: the reserved names are texts, a custom name its bytes
Entrypoint_Name(e) ==
    IF e.tag = EntrypointTagDefault THEN Ok("default")
    ELSE IF e.tag = EntrypointTagRoot THEN Ok("root")
    ELSE IF e.tag = EntrypointTagDo THEN Ok("do")
    ELSE IF e.tag = EntrypointTagSetDelegate THEN Ok("set_delegate")
    ELSE IF e.tag = EntrypointTagRemoveDelegate THEN Ok("remove_delegate")
    ELSE IF e.tag = EntrypointTagNamed
    THEN IF e.name = <<>> THEN Err("entrypoint is not named") ELSE Ok(e.name)
    ELSE Err("unrecognized entrypoint tag")

Entrypoint_MarshalBinary(e) ==
    IF e.tag = EntrypointTagNamed
    THEN Ok(<<e.tag, Len(e.name) % 256>> \o e.name)
    ELSE Ok(<<e.tag>>)

\* Entrypoint.UnmarshalBinary taking the name from the length byte onwards
Entrypoint_UnmarshalBinaryFromLength(e, data) ==
    IF Len(data) < 1 THEN Err("too few bytes to unmarshal Entrypoint")
    ELSE IF data[1] # EntrypointTagNamed THEN Ok([tag |-> data[1], name |-> e.name])
    ELSE IF Len(data) < 2 THEN Err("too few bytes to unmarshal Entrypoint name length")
    ELSE LET nameLength == data[2]
         IN IF Len(data) - 2 < nameLength
            THEN Err("too few bytes to unmarshal Entrypoint name")
            ELSE Ok([tag |-> data[1], name |-> SubSeq(data, 2, 1 + nameLength)])

\* e is the receiver: its name survives when the tag read is not the named one
Entrypoint_UnmarshalBinary(e, data) ==
    IF Len(data) < 1 THEN Err("too few bytes to unmarshal Entrypoint")
    ELSE IF data[1] # EntrypointTagNamed THEN Ok([tag |-> data[1], name |-> e.name])
    ELSE IF Len(data) < 2 THEN Err("too few bytes to unmarshal Entrypoint name length")
    ELSE LET nameLength == data[2]
         IN IF Len(data) - 2 < nameLength
            THEN Err("too few bytes to unmarshal Entrypoint name")
            ELSE Ok([tag |-> data[1], name |-> SubSeq(data, 3, 2 + nameLength)])

RawBytes_MarshalBinary(t) == Ok(Uint32Bytes(Len(t)) \o t)

RawBytes_UnmarshalBinary(data) ==
    IF Len(data) < 4 THEN Err("invalid transaction parameters value")
    ELSE IF Len(data) - 4 # Uint32Value(SubSeq(data, 1, 4))
    THEN Err("parameters should be the declared number of bytes")
    ELSE Ok(SubSeq(data, 5, Len(data)))

TransactionParameters_MarshalBinary(t) ==
    Put(Put(Ok(<<>>), Entrypoint_MarshalBinary(t.Entrypoint), "failed to marshal entrypoint"),
        RawBytes_MarshalBinary(t.Value), "failed to marshal value")

ZeroEntrypoint == [tag |-> 0, name |-> <<>>]

\* t is the receiver, dataPtr a slice
TransactionParameters_UnmarshalBinary(t, dataPtr) ==
    catchOutOfRangeExceptions(
      Try(Entrypoint_UnmarshalBinary(t.Entrypoint, dataPtr.b),
          "failed to unmarshal entrypoint", LAMBDA entrypoint :
        Try(Entrypoint_MarshalBinary(entrypoint.val),
            "failed to marshal entrypoint", LAMBDA entrypointBytes :
          IF ~CanSliceFrom(dataPtr, Len(entrypointBytes.val))
          THEN Panic("slice bounds out of range")
          ELSE Try(RawBytes_UnmarshalBinary(
                       SliceFrom(dataPtr, Len(entrypointBytes.val)).b),
                   "failed to unmarshal value", LAMBDA value :
                 Ok([Entrypoint |-> entrypoint.val, Value |-> value.val])))))

----------------------------------------------------------------------------
(* Operation contents: encoders *)

\* the part every sourced content starts with: tag, source as a tagged
\* public-key hash, then fee, counter, gas limit and storage limit as zarith
MarshalHeader(c) ==
    Put(Put(Put(Put(Put(
        Ok(<<IF c.kind = "Revelation" THEN ContentsTagRevelation
             ELSE IF c.kind = "Transaction" THEN ContentsTagTransaction
             ELSE IF c.kind = "Origination" THEN ContentsTagOrigination
             ELSE ContentsTagDelegation>>),
        EncodePubKeyHash(c.Source), "failed to write source"),
        ZRes(Encode(c.Fee)), "failed to write Fee"),
        ZRes(Encode(c.Counter)), "failed to write Counter"),
        ZRes(Encode(c.GasLimit)), "failed to write GasLimit"),
        ZRes(Encode(c.StorageLimit)), "failed to write StorageLimit")

Revelation_MarshalBinary(r) ==
    Put(MarshalHeader(r), PublicKey_MarshalBinary(r.PublicKey), "failed to write pubKey")

Transaction_MarshalBinary(t) ==
    Put(Put(Put(Put(MarshalHeader(t),
        ZRes(Encode(t.Amount)), "failed to write Amount"),
        ContractID_MarshalBinary(t.Destination), "failed to write destination"),
        Ok(<<serializeBoolean(t.Parameters # Nil)>>), ""),
        IF t.Parameters # Nil THEN TransactionParameters_MarshalBinary(t.Parameters[1])
        ELSE Ok(<<>>),
        "failed to write transaction parameters")

\* the optional delegate: a boolean byte, then the tagged public-key hash
MarshalDelegate(delegate) ==
    IF delegate = Nil THEN Ok(<<serializeBoolean(FALSE)>>)
    ELSE Put(Ok(<<serializeBoolean(TRUE)>>), EncodePubKeyHash(delegate[1]),
             "failed to write delegate")

Origination_MarshalBinary(o) ==
    Put(Put(Put(MarshalHeader(o),
        ZRes(Encode(o.Balance)), "failed to write Balance"),
        MarshalDelegate(o.Delegate), "failed to write delegate"),
        ContractScript_MarshalBinary(o.Script), "failed to write Script")

Delegation_MarshalBinary(d) ==
    Put(MarshalHeader(d), MarshalDelegate(d.Delegate), "failed to write delegate")

Endorsement_MarshalBinary(e) == Ok(<<ContentsTagEndorsement>> \o Int32Bytes(e.Level))

\* content.MarshalBinary() through the OperationContents interface
Content_MarshalBinary(c) ==
    IF c.kind = "Revelation" THEN Revelation_MarshalBinary(c)
    ELSE IF c.kind = "Transaction" THEN Transaction_MarshalBinary(c)
    ELSE IF c.kind = "Origination" THEN Origination_MarshalBinary(c)
    ELSE IF c.kind = "Delegation" THEN Delegation_MarshalBinary(c)
    ELSE Endorsement_MarshalBinary(c)

----------------------------------------------------------------------------
(* Operation contents: decoders.  Each takes its receiver (the value the    *)
(* struct held before the call) and the slice handed in, and runs under its *)
(* own deferred recover.                                                    *)

\* a step result that also carries the slice left to read
Step(v, rest) == [st |-> "ok", val |-> v, msg |-> "", rest |-> rest]



\* the zarith fields read one after the other with zarith.ReadNext
RECURSIVE ReadZariths(_, _, _)
ReadZariths(dataPtr, count, sofar) ==
    IF count = 0 THEN Step(sofar, dataPtr)
    ELSE Try(ReadNext(dataPtr.b), "failed to unmarshal zarith field", LAMBDA next :
           ReadZariths(SliceFrom(dataPtr, next.n), count - 1, Append(sofar, next.val)))

\* tag, source, fee, counter, gas limit, storage limit
UnmarshalHeader(expectedTag, dataPtr) ==
    IF SLen(dataPtr) = 0 THEN OutOfRange
    ELSE IF dataPtr.b[1] # expectedTag THEN Err("invalid tag")
    ELSE IF ~CanSliceTo(SliceFrom(dataPtr, 1), TaggedPubKeyHashLen)
    THEN Panic("slice bounds out of range")
    ELSE
      Try(ContractID_UnmarshalBinary(
              SliceTo(SliceFrom(dataPtr, 1), TaggedPubKeyHashLen).b),
          "failed to unmarshal source", LAMBDA source :
        IF ~CanSliceFrom(SliceFrom(dataPtr, 1), TaggedPubKeyHashLen)
        THEN Panic("slice bounds out of range")
        ELSE
          Try(ReadZariths(SliceFrom(dataPtr, 1 + TaggedPubKeyHashLen), 4, <<>>),
              "failed to unmarshal zarith field", LAMBDA nums :
            Step([Source |-> source.val, Fee |-> nums.val[1],
                  Counter |-> nums.val[2], GasLimit |-> nums.val[3],
                  StorageLimit |-> nums.val[4]], nums.rest)))

Revelation_UnmarshalBinary(r, data) ==
    catchOutOfRangeExceptions(
      Try(UnmarshalHeader(ContentsTagRevelation, data), "failed to unmarshal header",
          LAMBDA h :
        Try(PublicKey_UnmarshalBinary(h.rest.b), "failed to unmarshal public key",
            LAMBDA publicKey :
          Ok([kind |-> "Revelation", Source |-> h.val.Source, Fee |-> h.val.Fee,
              Counter |-> h.val.Counter, GasLimit |-> h.val.GasLimit,
              StorageLimit |-> h.val.StorageLimit,
              PublicKey |-> publicKey.val]))))

\* the optional parameters; held is what the receiver's field holds
UnmarshalParameters(held, dataPtr) ==
    IF SLen(dataPtr) = 0 THEN OutOfRange
    ELSE
      Try(deserializeBoolean(dataPtr.b[1]),
          "failed to deserialize presence of parameters", LAMBDA hasParameters :
        IF ~hasParameters.val THEN Ok(held)
        ELSE Try(TransactionParameters_UnmarshalBinary(
                     [Entrypoint |-> ZeroEntrypoint, Value |-> <<>>],
                     SliceFrom(dataPtr, 1)),
                 "failed to deserialize transaction parameters", LAMBDA params :
               Ok(Some(params.val))))

Transaction_UnmarshalBinary(t, data) ==
    catchOutOfRangeExceptions(
      Try(UnmarshalHeader(ContentsTagTransaction, data), "failed to unmarshal header",
          LAMBDA h :
        Try(ReadNext(h.rest.b), "failed to unmarshal amount", LAMBDA amount :
          IF ~CanSliceTo(SliceFrom(h.rest, amount.n), ContractIDLen)
          THEN Panic("slice bounds out of range")
          ELSE
            Try(ContractID_UnmarshalBinary(
                    SliceTo(SliceFrom(h.rest, amount.n), ContractIDLen).b),
                "failed to unmarshal destination", LAMBDA destination :
              IF ~CanSliceFrom(SliceFrom(h.rest, amount.n), ContractIDLen)
              THEN Panic("slice bounds out of range")
              ELSE
                Try(UnmarshalParameters(
                        t.Parameters, SliceFrom(h.rest, amount.n + ContractIDLen)),
                    "failed to deserialize transaction parameters", LAMBDA parameters :
                  Ok([kind |-> "Transaction", Source |-> h.val.Source,
                      Fee |-> h.val.Fee, Counter |-> h.val.Counter,
                      GasLimit |-> h.val.GasLimit,
                      StorageLimit |-> h.val.StorageLimit,
                      Amount |-> amount.val, Destination |-> destination.val,
                      Parameters |-> parameters.val]))))))

\* the optional delegate of Origination and Delegation; advance tells whether
\* the decoder moves past the delegate it read
UnmarshalDelegate(held, dataPtr, advance) ==
    IF SLen(dataPtr) = 0 THEN OutOfRange
    ELSE
      Try(deserializeBoolean(dataPtr.b[1]),
          "failed to deserialize presence of delegate", LAMBDA hasDelegate :
        IF ~hasDelegate.val THEN Step(held, SliceFrom(dataPtr, 1))
        ELSE IF ~CanSliceTo(SliceFrom(dataPtr, 1), TaggedPubKeyHashLen)
        THEN Panic("slice bounds out of range")
        ELSE
          Try(ContractID_UnmarshalBinary(
                  SliceTo(SliceFrom(dataPtr, 1), TaggedPubKeyHashLen).b),
              "failed to deserialize delegate", LAMBDA delegate :
            IF ~advance THEN Step(Some(delegate.val), SliceFrom(dataPtr, 1))
            ELSE IF ~CanSliceFrom(SliceFrom(dataPtr, 1), TaggedPubKeyHashLen)
            THEN Panic("slice bounds out of range")
            ELSE Step(Some(delegate.val),
                      SliceFrom(dataPtr, 1 + TaggedPubKeyHashLen))))

Origination_UnmarshalBinary(o, data) ==
    catchOutOfRangeExceptions(
      Try(UnmarshalHeader(ContentsTagOrigination, data), "failed to unmarshal header",
          LAMBDA h :
        Try(ReadNext(h.rest.b), "failed to unmarshal balance", LAMBDA balance :
          Try(UnmarshalDelegate(o.Delegate, SliceFrom(h.rest, balance.n), TRUE),
              "failed to deserialize delegate", LAMBDA delegate :
            Try(ContractScript_UnmarshalBinary(delegate.rest.b),
                "failed to deserialize script", LAMBDA script :
              Ok([kind |-> "Origination", Source |-> h.val.Source,
                  Fee |-> h.val.Fee, Counter |-> h.val.Counter,
                  GasLimit |-> h.val.GasLimit,
                  StorageLimit |-> h.val.StorageLimit,
                  Balance |-> balance.val, Delegate |-> delegate.val,
                  Script |-> script.val]))))))

Delegation_UnmarshalBinary(d, data) ==
    catchOutOfRangeExceptions(
      Try(UnmarshalHeader(ContentsTagDelegation, data), "failed to unmarshal header",
          LAMBDA h :
        Try(UnmarshalDelegate(d.Delegate, h.rest, FALSE),
            "failed to deserialize delegate", LAMBDA delegate :
          Ok([kind |-> "Delegation", Source |-> h.val.Source,
              Fee |-> h.val.Fee, Counter |-> h.val.Counter,
              GasLimit |-> h.val.GasLimit,
              StorageLimit |-> h.val.StorageLimit,
              Delegate |-> delegate.val]))))

Endorsement_UnmarshalBinary(e, data) ==
    catchOutOfRangeExceptions(
      IF SLen(data) = 0 THEN OutOfRange
      ELSE IF data.b[1] # ContentsTagEndorsement THEN Err("invalid tag for endorsement")
      ELSE Try(readInt32(SliceFrom(data, 1).b), "failed to unmarshal level", LAMBDA level :
             Ok([kind |-> "Endorsement", Level |-> level.val])))

\* the zero value of each content struct, as &Revelation{} and the like
ZeroContent(kind) ==
    IF kind = "Transaction" THEN [kind |-> kind, Parameters |-> Nil]
    ELSE IF kind \in {"Origination", "Delegation"} THEN [kind |-> kind, Delegate |-> Nil]
    ELSE [kind |-> kind]

Content_UnmarshalBinary(recv, data) ==
    IF recv.kind = "Revelation" THEN Revelation_UnmarshalBinary(recv, data)
    ELSE IF recv.kind = "Transaction" THEN Transaction_UnmarshalBinary(recv, data)
    ELSE IF recv.kind = "Origination" THEN Origination_UnmarshalBinary(recv, data)
    ELSE IF recv.kind = "Delegation" THEN Delegation_UnmarshalBinary(recv, data)
    ELSE Endorsement_UnmarshalBinary(recv, data)

----------------------------------------------------------------------------
(* Operation and SignedOperation *)

RECURSIVE MarshalContents(_, _, _)
MarshalContents(contents, i, buf) ==
    IF i > Len(contents) THEN buf
    ELSE MarshalContents(contents, i + 1,
                         Put(buf, Content_MarshalBinary(contents[i]),
                             "failed to marshal operation contents"))

Operation_MarshalBinaryAllowEmpty(o) ==
    MarshalContents(o.Contents, 1,
                    Put(Ok(<<>>), BranchID_MarshalBinary(o.Branch), "failed to write branch"))

Operation_MarshalBinary(o) ==
    Try(BranchID_MarshalBinary(o.Branch), "failed to write branch", LAMBDA branchIDBytes :
      IF Len(o.Contents) = 0
      THEN Err("expected non-zero list of contents in an operation")
      ELSE MarshalContents(o.Contents, 1, Ok(branchIDBytes.val)))

\* the tag each case of the switch of Operation.UnmarshalBinary is for
DispatchedTag(kind) ==
    IF kind = "Revelation" THEN ContentsTagRevelation
    ELSE IF kind = "Transaction" THEN ContentsTagTransaction
    ELSE IF kind = "Origination" THEN ContentsTagOrigination
    ELSE ContentsTagDelegation

\* the tags the switch of Operation.UnmarshalBinary has a case for
DispatchedKind(tag) ==
    IF tag = ContentsTagRevelation THEN "Revelation"
    ELSE IF tag = ContentsTagTransaction THEN "Transaction"
    ELSE IF tag = ContentsTagOrigination THEN "Origination"
    ELSE IF tag = ContentsTagDelegation THEN "Delegation"
    ELSE "none"

\* the loop "for len(dataPtr) > 0": decode one content into a fresh struct,
\* append it, marshal it again and advance by the length of that encoding
RECURSIVE UnmarshalContents(_, _)
UnmarshalContents(dataPtr, contents) ==
    IF SLen(dataPtr) = 0 THEN Ok(contents)
    ELSE IF DispatchedKind(dataPtr.b[1]) = "none" THEN Err("unexpected content tag")
    ELSE
      Try(Content_UnmarshalBinary(ZeroContent(DispatchedKind(dataPtr.b[1])), dataPtr),
          "failed to unmarshal content", LAMBDA content :
        Pass(Content_MarshalBinary(content.val), LAMBDA marshaled :
          IF ~CanSliceFrom(dataPtr, Len(marshaled.val))
          THEN Panic("slice bounds out of range")
          ELSE UnmarshalContents(SliceFrom(dataPtr, Len(marshaled.val)),
                                 Append(contents, content.val))))

\* How many bytes of dataPtr each decoder went through before it returned
\* without error: the fields it read, one after the other.
HeaderBytesRead(expectedTag, dataPtr) ==
    SLen(dataPtr) - SLen(UnmarshalHeader(expectedTag, dataPtr).rest)

\* tag and key of PublicKey.UnmarshalBinary
PublicKeyBytesRead(data) ==
    1 + (IF data[1] = PubKeyTagEd25519 THEN PubKeyLenEd25519
         ELSE IF data[1] = PubKeyTagSecp256k1 THEN PubKeyLenSecp256k1
         ELSE PubKeyLenP256)

\* the boolean and, when it is set, the tagged public-key hash
DelegateBytesRead(dataPtr) ==
    IF dataPtr.b[1] = serializeBoolean(TRUE) THEN 1 + TaggedPubKeyHashLen ELSE 1

\* both length-prefixed fields of ContractScript.UnmarshalBinary
ScriptBytesRead(data) ==
    ReadLengthPrefixed(data, ReadLengthPrefixed(data, 0).i).i

\* the parameters value takes data[4:], all that is left
ContentBytesRead(kind, dataPtr) ==
    With(HeaderBytesRead(DispatchedTag(kind), dataPtr), LAMBDA header :
      IF kind = "Revelation"
      THEN header + PublicKeyBytesRead(SliceFrom(dataPtr, header).b)
      ELSE IF kind = "Delegation"
      THEN header + DelegateBytesRead(SliceFrom(dataPtr, header))
      ELSE
        With(header + ReadNext(SliceFrom(dataPtr, header).b).n, LAMBDA numbers :
          IF kind = "Transaction"
          THEN IF dataPtr.b[numbers + ContractIDLen + 1] = serializeBoolean(TRUE)
               THEN SLen(dataPtr)
               ELSE numbers + ContractIDLen + 1
          ELSE With(numbers + DelegateBytesRead(SliceFrom(dataPtr, numbers)),
                    LAMBDA delegate :
                 delegate + ScriptBytesRead(SliceFrom(dataPtr, delegate).b))))

\* the rounds of that loop on an input: where the tag was examined (at, an
\* offset from the end of the branch), how many bytes the content decoder
\* read and how far the loop moved on
RECURSIVE LoopRounds(_, _, _)
LoopRounds(dataPtr, at, rounds) ==
    IF SLen(dataPtr) = 0 \/ DispatchedKind(dataPtr.b[1]) = "none" THEN rounds
    ELSE
      With(DispatchedKind(dataPtr.b[1]), LAMBDA kind :
        With(Content_UnmarshalBinary(ZeroContent(kind), dataPtr), LAMBDA content :
          IF content.st # "ok" THEN rounds
          ELSE
            With(Content_MarshalBinary(content.val), LAMBDA marshaled :
              IF marshaled.st # "ok" \/ ~CanSliceFrom(dataPtr, Len(marshaled.val))
              THEN rounds
              ELSE LoopRounds(SliceFrom(dataPtr, Len(marshaled.val)),
                              at + Len(marshaled.val),
                              Append(rounds,
                                     [at |-> at,
                                      read |-> ContentBytesRead(kind, dataPtr),
                                      moved |-> Len(marshaled.val)])))))

Operation_UnmarshalBinary(data) ==
    catchOutOfRangeExceptions(
      IF ~CanSliceTo(data, BlockHashLen) THEN Panic("slice bounds out of range")
      ELSE
        Pass(BranchID_UnmarshalBinary(SliceTo(data, BlockHashLen).b), LAMBDA branch :
          IF ~CanSliceFrom(data, BlockHashLen)
          THEN Panic("slice bounds out of range")
          ELSE Pass(UnmarshalContents(SliceFrom(data, BlockHashLen), <<>>),
                    LAMBDA contents :
                 Ok([Branch |-> branch.val, Contents |-> contents.val]))))

SignatureHash(o) ==
    Try(Operation_MarshalBinary(o), "failed to marshal operation", LAMBDA operationBytes :
      Ok(Digest(<<OperationWatermark>> \o operationBytes.val, 32)))

\* PrivateKey.CryptoPrivateKey: the Go type of the key it returns, and the key
CryptoPrivateKey(p) ==
    Try(Base58CheckDecode(p), "unable to base58check decode private key", LAMBDA d :
      IF d.val.prefix = PrefixEd25519SecretKey
      THEN Ok([type |-> "ed25519.PrivateKey", key |-> d.val.payload])
      ELSE IF d.val.prefix \in {PrefixSecp256k1SecretKey, PrefixP256SecretKey}
      THEN Ok([type |-> "*ecdsa.PrivateKey", key |-> d.val.payload])
      ELSE Err("unexpected base58check private key prefix"))

\* stand-in for ed25519.Sign: 64 bytes fixed by the key and the message
Ed25519Sign(key, message) == Digest(key \o message, OperationSignatureLen)

\* stand-in for the DER bytes of btcecdsa.Sign(...).Serialize()
EcdsaSignSerialize(key, message) == <<48, 68>> \o Digest(key \o message, 68)

signGeneric(watermark, message, privateKey) ==
    Pass(CryptoPrivateKey(privateKey), LAMBDA cryptoPrivateKey :
      IF cryptoPrivateKey.val.type = "ed25519.PrivateKey"
      THEN Base58CheckEncode(PrefixEd25519Signature,
                             Ed25519Sign(cryptoPrivateKey.val.key,
                                         Digest(<<watermark>> \o message, 32)))
      ELSE IF cryptoPrivateKey.val.type = "ecdsa.PrivateKey"
      THEN Base58CheckEncode(PrefixGenericSignature,
                             EcdsaSignSerialize(cryptoPrivateKey.val.key,
                                                Digest(<<watermark>> \o message, 32)))
      ELSE Err("unsupported private key type"))

SignOperation(operation, privateKey) ==
    Try(Operation_MarshalBinary(operation), "failed to marshal operation",
        LAMBDA operationBytes :
      Pass(signGeneric(OperationWatermark, operationBytes.val, privateKey),
           LAMBDA signature :
        Ok([Operation |-> operation, Signature |-> signature.val])))

TextWatermark == 5

SignMessage(message, privateKey) == signGeneric(TextWatermark, message, privateKey)

\* stand-in for the public half ed25519 derives from a 32-byte seed
Ed25519Public(seed) == Digest(<<101>> \o seed, PubKeyLenEd25519)

\* ed25519.NewKeyFromSeed: the 64-byte private key is the seed followed by
\* the public key
Ed25519NewKeyFromSeed(seed) == seed \o Ed25519Public(seed)

\* the seeds of the Ed25519 key pairs that exist
KeySeeds == {Rep(11, 32), Rep(12, 32)}

\* stand-in for ed25519.Verify: sig is what the private key of this public
\* key signs for message
Ed25519Verify(publicKey, message, sig) ==
    \E seed \in KeySeeds :
        /\ Ed25519Public(seed) = publicKey
        /\ sig = Ed25519Sign(Ed25519NewKeyFromSeed(seed), message)

\* verifyGeneric hashing the message without its watermark
verifyGenericNoWatermark(watermark, message, signature, publicKey) ==
    Try(Base58CheckDecode(signature), "failed to decode signature", LAMBDA d :
      IF publicKey.type = "ed25519.PublicKey"
      THEN IF d.val.prefix # PrefixEd25519Signature /\ d.val.prefix # PrefixGenericSignature
           THEN Err("signature type does not match public key type")
           ELSE IF Ed25519Verify(publicKey.key, Digest(message, 32), d.val.payload)
           THEN Ok(<<>>)
           ELSE Err("invalid signature")
      ELSE Err("unsupported public key type"))

\* verifyGeneric handing a signature of any prefix to ed25519.Verify
verifyGenericAnyPrefix(watermark, message, signature, publicKey) ==
    Try(Base58CheckDecode(signature), "failed to decode signature", LAMBDA d :
      IF publicKey.type = "ed25519.PublicKey"
      THEN IF Ed25519Verify(publicKey.key, Digest(<<watermark>> \o message, 32), d.val.payload)
           THEN Ok(<<>>)
           ELSE Err("invalid signature")
      ELSE Err("unsupported public key type"))

\* publicKey is a crypto.PublicKey: its dynamic type and its bytes
verifyGeneric(watermark, message, signature, publicKey) ==
    Try(Base58CheckDecode(signature), "failed to decode signature", LAMBDA d :
      IF publicKey.type = "ed25519.PublicKey"
      THEN IF d.val.prefix # PrefixEd25519Signature /\ d.val.prefix # PrefixGenericSignature
           THEN Err("signature type does not match public key type")
           ELSE IF Ed25519Verify(publicKey.key, Digest(<<watermark>> \o message, 32),
                                 d.val.payload)
           THEN Ok(<<>>)
           ELSE Err("invalid signature")
      ELSE Err("unsupported public key type"))

VerifyMessage(message, signature, publicKey) ==
    verifyGeneric(TextWatermark, message, signature, publicKey)

SignedOperation_MarshalBinary(s) ==
    Put(Put(Ok(<<>>), Operation_MarshalBinary(s.Operation), "failed to marshal operation"),
        Signature_MarshalBinary(s.Signature), "failed to marshal signature")

\* the signature prefix a source of the given kind stands for; the two
\* mappings differ only in which curve goes with which signature prefix
SignaturePrefixForSwapped(sourceContractType) ==
    IF sourceContractType = PrefixEd25519PublicKeyHash THEN PrefixEd25519Signature
    ELSE IF sourceContractType = PrefixP256PublicKeyHash THEN PrefixSecp256k1Signature
    ELSE IF sourceContractType = PrefixSecp256k1PublicKeyHash THEN PrefixP256Signature
    ELSE PrefixGenericSignature

SignaturePrefixFor(sourceContractType) ==
    IF sourceContractType = PrefixEd25519PublicKeyHash THEN PrefixEd25519Signature
    ELSE IF sourceContractType = PrefixP256PublicKeyHash THEN PrefixP256Signature
    ELSE IF sourceContractType = PrefixSecp256k1PublicKeyHash THEN PrefixSecp256k1Signature
    ELSE PrefixGenericSignature

\* only the four manager operations have GetSource
HasGetSource(content) == content.kind # "Endorsement"

RECURSIVE InferSignature(_, _, _)
InferSignature(contents, i, signatureBytes) ==
    IF i > Len(contents) THEN Base58CheckEncode(PrefixGenericSignature, signatureBytes)
    ELSE IF ~HasGetSource(contents[i]) THEN InferSignature(contents, i + 1, signatureBytes)
    ELSE
      Pass(Base58CheckDecode(contents[i].Source), LAMBDA source :
        IF IsPubKeyHashPrefix(source.val.prefix)
        THEN Base58CheckEncode(SignaturePrefixFor(source.val.prefix), signatureBytes)
        ELSE InferSignature(contents, i + 1, signatureBytes))

SignedOperation_UnmarshalBinary(data) ==
    IF SLen(data) < OperationSignatureLen
    THEN Err("signed operation too short, probably not a signed operation")
    ELSE
      Try(Operation_UnmarshalBinary(SliceTo(data, SLen(data) - OperationSignatureLen)),
          "failed to unmarshal operation in signed operation", LAMBDA operation :
        Pass(InferSignature(operation.val.Contents, 1,
                            SliceFrom(data, SLen(data) - OperationSignatureLen).b),
             LAMBDA signature :
          Ok([Operation |-> operation.val, Signature |-> signature.val])))

OperationHash_UnmarshalBinary(data) ==
    IF Len(data) # OperationHashLen THEN Err("expect operation hash to be 32 bytes")
    ELSE Base58CheckEncode(PrefixOperationHash, data)

\* blake2b.Sum256 of the signed operation's own encoding
SignedOperation_GetHash(s) ==
    Pass(SignedOperation_MarshalBinary(s), LAMBDA signedOpBytes :
      OperationHash_UnmarshalBinary(Digest(signedOpBytes.val, 32)))

----------------------------------------------------------------------------
(* The values the operation codec is driven over.  Base58Check strings are  *)
(* named by the payload they carry.                                         *)

B58String(prefix, payload) == Base58CheckEncode(prefix, payload).val

TestBranch == B58String(PrefixBlockHash, Rep(230, BlockHashLen))

Tz1 == B58String(PrefixEd25519PublicKeyHash, Rep(41, PubKeyHashLen))

Tz2 == B58String(PrefixSecp256k1PublicKeyHash, Rep(42, PubKeyHashLen))

Tz3 == B58String(PrefixP256PublicKeyHash, Rep(43, PubKeyHashLen))

KT1 == B58String(PrefixContractHash, Rep(44, ContractHashLen))

TestPublicKey == B58String(PrefixEd25519PublicKey, Rep(71, PubKeyLenEd25519))

TestPrivateKey == B58String(PrefixEd25519SecretKey, Rep(72, 64))

Manager(kind, source, fee) ==
    [kind |-> kind, Source |-> source, Fee |-> fee, Counter |-> 1,
     GasLimit |-> 10000, StorageLimit |-> 0]

MkRevelation(source, fee) ==
    [f \in DOMAIN Manager("Revelation", source, fee) \cup {"PublicKey"} |->
        IF f = "PublicKey" THEN TestPublicKey ELSE Manager("Revelation", source, fee)[f]]

MkTransaction(source, fee, destination, parameters) ==
    LET m == Manager("Transaction", source, fee)
    IN [kind |-> m.kind, Source |-> m.Source, Fee |-> m.Fee, Counter |-> m.Counter,
        GasLimit |-> m.GasLimit, StorageLimit |-> m.StorageLimit,
        Amount |-> 1000000, Destination |-> destination, Parameters |-> parameters]

MkOrigination(source, fee, delegate, storage) ==
    LET m == Manager("Origination", source, fee)
    IN [kind |-> m.kind, Source |-> m.Source, Fee |-> m.Fee, Counter |-> m.Counter,
        GasLimit |-> m.GasLimit, StorageLimit |-> m.StorageLimit,
        Balance |-> 200, Delegate |-> delegate,
        Script |-> [Code |-> <<3, 11>>, Storage |-> storage]]

MkDelegation(source, fee, delegate) ==
    LET m == Manager("Delegation", source, fee)
    IN [kind |-> m.kind, Source |-> m.Source, Fee |-> m.Fee, Counter |-> m.Counter,
        GasLimit |-> m.GasLimit, StorageLimit |-> m.StorageLimit,
        Delegate |-> delegate]

MkEndorsement(level) == [kind |-> "Endorsement", Level |-> level]

DoParameters == [Entrypoint |-> EntrypointDo,
                 Value |-> <<2, 0, 0>>]

\* contents of all five kinds, with sources on each curve and originated
ContentPool ==
    { MkRevelation(Tz1, 1257),
      MkRevelation(KT1, 1257),
      MkTransaction(Tz1, 50000, KT1, Nil),
      MkTransaction(Tz2, 1257, Tz1, Some(DoParameters)),
      MkTransaction(KT1, 1257, Tz1, Nil),
      MkOrigination(Tz3, 1257, Some(Tz1), <<3, 11>>),
      MkOrigination(Tz1, 1257, Nil, <<>>),
      MkOrigination(KT1, 1257, Nil, <<3, 11>>),
      MkDelegation(Tz2, 1257, Some(Tz1)),
      MkDelegation(Tz3, 1257, Nil),
      MkDelegation(KT1, 1257, Nil),
      MkEndorsement(9) }

BranchBytes == Rep(230, BlockHashLen)

\* byte strings supplied from outside: empty ones (with and without spare
\* capacity behind them), a bare branch, a branch followed by other bytes
RawInputs ==
    { Slice(<<>>, <<>>),
      Slice(<<>>, Rep(0, 40)),
      Slice(BranchBytes, <<>>),
      Slice(BranchBytes \o <<ContentsTagEndorsement, 0, 0, 0, 9>>, <<>>),
      Slice(BranchBytes \o <<5>>, <<>>),
      Slice(BranchBytes \o <<ContentsTagRevelation>>, <<>>),
      Slice(BranchBytes \o Rep(7, OperationSignatureLen), <<>>),
      Slice(Rep(7, OperationSignatureLen), <<>>),
      Slice(<<ContentsTagEndorsement, 0, 0, 0, 9>>, <<>>),
      Slice(<<ContentsTagDelegation>>, <<>>) }

\* the structs a content decoder is called on: fresh ones, and ones that
\* already hold an optional field
Receivers ==
    { ZeroContent(k) : k \in {"Revelation", "Transaction", "Origination",
                              "Delegation", "Endorsement"} }
    \cup { [kind |-> "Transaction", Parameters |-> Some(DoParameters)],
           [kind |-> "Delegation", Delegate |-> Some(Tz1)] }

NoContent == [kind |-> "none"]

NoWire == [src |-> "none", out |-> NoResult, data |-> Slice(<<>>, <<>>)]

NoCall == [fn |-> "none", recv |-> NoContent, out |-> NoResult]

\* what a marshaller left on the wire
Produced(src, out) ==
    [src |-> src, out |-> out,
     data |-> IF out.st = "ok" THEN Slice(out.val, <<>>) ELSE Slice(<<>>, <<>>)]

OpIdle ==
    /\ op = [Branch |-> TestBranch, Contents |-> <<>>]
    /\ signed = NoResult
    /\ single = NoContent
    /\ wire = NoWire
    /\ res = NoCall

ZIdle ==
    /\ zval = 0
    /\ zenc = [kind |-> "none", res |-> [err |-> "none", val |-> <<>>]]
    /\ zdec = [kind |-> "none", res |-> [err |-> "none", val |-> <<>>]]

\* no library function has been called
LibIdle ==
    /\ call = [fn |-> "none", in |-> <<>>, out |-> NoResult]
    /\ registry = RegisterFirst(Len(base58CheckPrefixInfos))

Init == OpIdle /\ ZIdle /\ LibIdle

\* nothing has been marshalled, signed or supplied yet
Building == wire.src = "none" /\ signed.st = "none" /\ single.kind = "none"

\* append one content to the operation
AddContent(c) ==
    /\ Building
    /\ Len(op.Contents) < MaxContents
    /\ op' = [op EXCEPT !.Contents = Append(@, c)]
    /\ UNCHANGED <<signed, single, wire, res, zvars, libvars>>

OperationMarshalBinary ==
    /\ Building
    /\ wire' = Produced("Operation.MarshalBinary", Operation_MarshalBinary(op))
    /\ UNCHANGED <<op, signed, single, res, zvars, libvars>>

SignOperationCall ==
    /\ Building
    /\ signed' = SignOperation(op, TestPrivateKey)
    /\ UNCHANGED <<op, single, wire, res, zvars, libvars>>

SignedOperationMarshalBinary ==
    /\ signed.st = "ok"
    /\ wire.src = "none"
    /\ wire' = Produced("SignedOperation.MarshalBinary",
                        SignedOperation_MarshalBinary(signed.val))
    /\ UNCHANGED <<op, signed, single, res, zvars, libvars>>

ContentMarshalBinary(c) ==
    /\ Building
    /\ op.Contents = <<>>
    /\ single' = c
    /\ wire' = Produced("Content.MarshalBinary", Content_MarshalBinary(c))
    /\ UNCHANGED <<op, signed, res, zvars, libvars>>

\* bytes that no marshaller of this model produced
LoadRaw(data) ==
    /\ Building
    /\ op.Contents = <<>>
    /\ wire' = [src |-> "raw", out |-> Ok(data.b), data |-> data]
    /\ UNCHANGED <<op, signed, single, res, zvars, libvars>>

Decodable == wire.src # "none" /\ wire.out.st = "ok" /\ res.fn = "none"

OperationUnmarshalBinary ==
    /\ Decodable
    /\ wire.src # "Content.MarshalBinary"
    /\ res' = [fn |-> "Operation.UnmarshalBinary", recv |-> NoContent,
               out |-> Operation_UnmarshalBinary(wire.data)]
    /\ UNCHANGED <<op, signed, single, wire, zvars, libvars>>

SignedOperationUnmarshalBinary ==
    /\ Decodable
    /\ wire.src # "Content.MarshalBinary"
    /\ res' = [fn |-> "SignedOperation.UnmarshalBinary", recv |-> NoContent,
               out |-> SignedOperation_UnmarshalBinary(wire.data)]
    /\ UNCHANGED <<op, signed, single, wire, zvars, libvars>>

ContentUnmarshalBinary(recv) ==
    /\ Decodable
    /\ wire.src \in {"Content.MarshalBinary", "raw"}
    /\ res' = [fn |-> "Content.UnmarshalBinary", recv |-> recv,
               out |-> Content_UnmarshalBinary(recv, wire.data)]
    /\ UNCHANGED <<op, signed, single, wire, zvars, libvars>>

Next ==
    \/ \E c \in ContentPool : AddContent(c)
    \/ OperationMarshalBinary
    \/ SignOperationCall
    \/ SignedOperationMarshalBinary
    \/ \E c \in ContentPool : ContentMarshalBinary(c)
    \/ \E data \in RawInputs : LoadRaw(data)
    \/ OperationUnmarshalBinary
    \/ SignedOperationUnmarshalBinary
    \/ \E recv \in Receivers : ContentUnmarshalBinary(recv)

Spec == Init /\ [][Next]_vars

----------------------------------------------------------------------------
(* The zarith codec driven over its inputs *)

\* the inputs of TestEncode and TestEncodeSigned that lie outside -MaxZ..MaxZ
ZTestValues == {50000, 10100, 1000000, 0 - 120053, 8191, 0 - 8191, 1048575}

ZInts == ((0 - MaxZ)..MaxZ) \cup ZTestValues

ZNone == [err |-> "none", val |-> <<>>]

ZInit ==
    /\ zval \in ZInts
    /\ zenc = [kind |-> "none", res |-> ZNone]
    /\ zdec = [kind |-> "none", res |-> ZNone]
    /\ OpIdle
    /\ LibIdle

ZEncode ==
    /\ zenc.kind = "none"
    /\ zenc' = [kind |-> "unsigned", res |-> Encode(zval)]
    /\ UNCHANGED <<zval, zdec, opvars, libvars>>

ZEncodeSigned ==
    /\ zenc.kind = "none"
    /\ zenc' = [kind |-> "signed", res |-> EncodeSigned(zval)]
    /\ UNCHANGED <<zval, zdec, opvars, libvars>>

ZDecode ==
    /\ zenc.kind = "unsigned"
    /\ zenc.res.err = ""
    /\ zdec.kind = "none"
    /\ zdec' = [kind |-> "unsigned", res |-> Decode(zenc.res.val)]
    /\ UNCHANGED <<zval, zenc, opvars, libvars>>

ZDecodeSigned ==
    /\ zenc.kind = "signed"
    /\ zenc.res.err = ""
    /\ zdec.kind = "none"
    /\ zdec' = [kind |-> "signed", res |-> DecodeSigned(zenc.res.val)]
    /\ UNCHANGED <<zval, zenc, opvars, libvars>>

ZNext == ZEncode \/ ZEncodeSigned \/ ZDecode \/ ZDecodeSigned

SpecZarith == ZInit /\ [][ZNext]_vars

----------------------------------------------------------------------------
(* Library functions called on their own *)

MaxRead == 200

\* the longest prefix of an encoding that is decoded
MaxPrefix == 80

\* one call of a library function: what it was given and what it returned
Called(fn, in, out) ==
    /\ call.fn = "none"
    /\ call' = [fn |-> fn, in |-> in, out |-> out]
    /\ UNCHANGED <<zvars, opvars, registry>>

\* numbers whose encodings are read back (zarith_test.go TestReadNext)
ReadValues == (0..MaxRead) \cup {8191, 16383, 16384, 50000, 1000000}

\* bytes that follow the number in the stream
Extras == {<<>>, <<0>>, <<5>>, <<128>>, <<255, 1>>, <<129, 0, 7>>, <<127, 255>>}

\* byte streams handed to the readers as they are
Streams ==
    {<<>>, <<128>>, <<255, 200>>, <<128, 128, 128>>, <<255>>,
     <<0>>, <<64>>, <<128, 0>>, <<193, 1, 9>>, <<245, 211, 14, 255>>}

\* ReadNext on Encode(n) followed by extra bytes
ZReadNextEncoded(n, extra) ==
    Called("ReadNext",
           [kind |-> "encoded", n |-> n, extra |-> extra, stream |-> Encode(n).val \o extra],
           ReadNext(Encode(n).val \o extra))

ZReadNext(stream) ==
    Called("ReadNext", [kind |-> "raw", stream |-> stream], ReadNext(stream))

ZReadNextSigned(stream) ==
    Called("ReadNextSigned", [kind |-> "raw", stream |-> stream], ReadNextSigned(stream))

\* the first bytes of a payload: among them the bytes that tell registered
\* prefixes apart, so that prefix and payload together could look like
\* another prefix
PayloadHeads == {<<>>, <<0>>, <<159>>, <<0, 121>>, <<58, 7>>, <<255, 1, 52>>}

PayloadFillers == {0, 7, 255}

\* payloads of the length registered for prefix b
PayloadsFor(b) ==
    {head \o Rep(f, PayloadLength(b) - Len(head)) : head \in PayloadHeads, f \in PayloadFillers}

\* payloads one byte shorter or longer than registered for prefix b
WrongPayloadsFor(b) ==
    {Rep(f, PayloadLength(b) + d) : f \in PayloadFillers, d \in {0 - 1, 1}}

\* byte strings that start with no registered prefix
UnregisteredBodies ==
    {<<99, 99>> \o Rep(7, 20), <<6, 161, 160>> \o Rep(7, 20), <<1>>, <<6, 161>>,
     <<52, 1>> \o Rep(0, 32)}

\* the checksum byte changed and by how much
ChecksumDeltas == {1, 128, 255}

\* Base58CheckEncode on its own, with a payload of the right or a wrong length
B58Encode(b, input) ==
    Called("Base58CheckEncode", [prefix |-> b, payload |-> input], Base58CheckEncode(b, input))

\* Base58CheckDecode of what Base58CheckEncode returned
B58DecodeEncoded(b, input) ==
    With(Base58CheckEncode(b, input), LAMBDA enc :
      Called("Base58CheckDecode",
             [kind |-> "encoded", prefix |-> b, payload |-> input, str |-> enc.val],
             Base58CheckDecode(enc.val)))

\* Base58CheckDecode of a valid string with checksum byte i changed
B58DecodeCorrupted(b, input, i, delta) ==
    With(Base58CheckEncode(b, input).val, LAMBDA str :
      With([str EXCEPT ![Len(str) - 4 + i] = (@ + delta) % 256], LAMBDA bad :
        Called("Base58CheckDecode",
               [kind |-> "corrupted", prefix |-> b, payload |-> input, str |-> bad],
               Base58CheckDecode(bad))))

\* Base58CheckDecode of a body followed by its correct checksum
B58DecodeChecksummed(kind, body) ==
    Called("Base58CheckDecode",
           [kind |-> kind, str |-> body \o checksum(body)],
           Base58CheckDecode(body \o checksum(body)))

\* Base58CheckDecode of a string of fewer than 5 bytes
B58DecodeShort(str) ==
    Called("Base58CheckDecode", [kind |-> "short", str |-> str], Base58CheckDecode(str))

\* inputs of ContractID.UnmarshalBinary: tagged public-key hashes (21 bytes),
\* full contract ids (22 bytes) and byte strings of other lengths
ContractIDInputs ==
    {<<t>> \o Rep(f, PubKeyHashLen) : t \in {0, 1, 2, 3, 255}, f \in {7, 200}}
    \cup {<<c, t>> \o Rep(f, PubKeyHashLen) : c \in {0, 1, 2}, t \in {0, 1, 2, 3}, f \in {7, 200}}
    \cup {Rep(0, n) : n \in {0, 1, 20, 23, 40}}
    \cup {Rep(1, n) : n \in {1, 20, 23}}

ContractIDUnmarshalBinary(data) ==
    Called("ContractID.UnmarshalBinary", [data |-> data], ContractID_UnmarshalBinary(data))

\* text messages, as bytes
Messages == {<<>>, <<72, 105>>, <<86, 101, 114, 105, 102, 121, 32, 77, 101, 46>>}

Ed25519PrivateKeys ==
    {B58String(PrefixEd25519SecretKey, Ed25519NewKeyFromSeed(seed)) : seed \in KeySeeds}

Secp256k1PrivateKey == B58String(PrefixSecp256k1SecretKey, Rep(21, 32))

P256PrivateKey == B58String(PrefixP256SecretKey, Rep(22, 32))

\* private keys of the three curves, and a string that is no private key
PrivateKeys == Ed25519PrivateKeys \cup {Secp256k1PrivateKey, P256PrivateKey, TestPublicKey}

\* the crypto.PublicKey values handed to verification
Ed25519PublicKeys ==
    {[type |-> "ed25519.PublicKey", key |-> Ed25519Public(seed)] : seed \in KeySeeds}

OtherPublicKeys ==
    {[type |-> "ecdsa.PublicKey", key |-> <<2>> \o Rep(31, 32)],
     [type |-> "*ecdsa.PublicKey", key |-> <<3>> \o Rep(32, 32)],
     [type |-> "*btcec.PublicKey", key |-> <<2>> \o Rep(33, 32)]}

\* the operations signed on their own: one content each
SignableOperations == {[Branch |-> TestBranch, Contents |-> <<c>>] : c \in ContentPool}

\* the signature prefixes, and two prefixes that are not of signatures
RelabelPrefixes ==
    {PrefixEd25519Signature, PrefixSecp256k1Signature, PrefixP256Signature,
     PrefixGenericSignature, PrefixEd25519SecretKey}

SignMessageCall(message, privateKey) ==
    Called("SignMessage", [message |-> message, privateKey |-> privateKey],
           SignMessage(message, privateKey))

SignOperationAlone(operation, privateKey) ==
    Called("SignOperation", [operation |-> operation, privateKey |-> privateKey],
           SignOperation(operation, privateKey))

\* SignMessage twice with the private key of seed, then VerifyMessage of the
\* first signature with the public key of seed
SignVerifyMessage(message, seed) ==
    With(B58String(PrefixEd25519SecretKey, Ed25519NewKeyFromSeed(seed)), LAMBDA sk :
      With(SignMessage(message, sk), LAMBDA sig :
        Called("VerifyMessage",
               [kind |-> "signed", message |-> message, privateKey |-> sk,
                signed |-> sig, again |-> SignMessage(message, sk),
                signature |-> sig.val,
                publicKey |-> [type |-> "ed25519.PublicKey", key |-> Ed25519Public(seed)]],
               VerifyMessage(message, sig.val,
                             [type |-> "ed25519.PublicKey", key |-> Ed25519Public(seed)]))))

\* SignOperation twice, then verifyGeneric of the first signature over the
\* operation's bytes under the operation watermark
SignVerifyOperation(operation, seed) ==
    With(B58String(PrefixEd25519SecretKey, Ed25519NewKeyFromSeed(seed)), LAMBDA sk :
      With(SignOperation(operation, sk), LAMBDA s :
        /\ s.st = "ok"
        /\ Called("verifyGeneric",
                  [kind |-> "signed", operation |-> operation, privateKey |-> sk,
                   signed |-> Ok(s.val.Signature),
                   again |-> Ok(SignOperation(operation, sk).val.Signature),
                   signature |-> s.val.Signature,
                   publicKey |-> [type |-> "ed25519.PublicKey", key |-> Ed25519Public(seed)]],
                  verifyGeneric(OperationWatermark, Operation_MarshalBinary(operation).val,
                                s.val.Signature,
                                [type |-> "ed25519.PublicKey", key |-> Ed25519Public(seed)]))))

\* VerifyMessage of the signature of seed over message, carried under the
\* Base58Check prefix relabel, with any public key
VerifyRelabelled(message, seed, relabel, publicKey) ==
    With(B58String(relabel,
                   Ed25519Sign(Ed25519NewKeyFromSeed(seed),
                               Digest(<<TextWatermark>> \o message, 32))), LAMBDA sig :
      Called("VerifyMessage",
             [kind |-> "relabelled", message |-> message, signature |-> sig,
              signer |-> Ed25519Public(seed), publicKey |-> publicKey],
             VerifyMessage(message, sig, publicKey)))

\* VerifyMessage of a string that is no signature
VerifyOther(message, signature, publicKey) ==
    Called("VerifyMessage",
           [kind |-> "other", message |-> message, signature |-> signature,
            publicKey |-> publicKey],
           VerifyMessage(message, signature, publicKey))

\* native public keys: Ed25519 keys, points of the curves S256 and P256 held
\* by value, and keys of types and curves the library does not support
NativePublicKeys ==
    Ed25519PublicKeys
    \cup {[type |-> "ecdsa.PublicKey", curve |-> curve, X |-> x, Y |-> CurveY(x, odd)] :
             curve \in {"S256", "P256", "P224"}, x \in CurveXs, odd \in BOOLEAN}
    \cup {[type |-> "*ecdsa.PublicKey", curve |-> "S256", X |-> x, Y |-> CurveY(x, FALSE)] :
             x \in CurveXs}
    \cup {[type |-> "rsa.PublicKey", key |-> Rep(61, 32)]}

\* PublicKey strings: well-formed keys of the three curves, secp256k1 keys
\* with a bad format byte or an x off the curve, and strings that are no keys
PublicKeyStrings ==
    {B58String(PrefixEd25519PublicKey, k.key) : k \in Ed25519PublicKeys}
    \cup {B58String(prefix, <<format>> \o x) :
             prefix \in {PrefixSecp256k1PublicKey, PrefixP256PublicKey},
             format \in {2, 3, 4}, x \in CurveXs \cup {Rep(7, 32)}}
    \cup {TestPublicKey, Tz1, <<>>}

\* TestKeys: the PublicKey of a native key, its binary form, the PublicKey
\* read back from it, and the native key of that
PublicKeyFromNative(k) ==
    With(NewPublicKeyFromCryptoPublicKey(k), LAMBDA new :
      IF new.st # "ok"
      THEN Called("NewPublicKeyFromCryptoPublicKey", [native |-> k],
                  [new |-> new, marshal |-> NoResult, unmarshal |-> NoResult,
                   crypto |-> NoResult])
      ELSE With(PublicKey_MarshalBinary(new.val), LAMBDA marshal :
             With(PublicKey_UnmarshalBinary(marshal.val), LAMBDA unmarshal :
               Called("NewPublicKeyFromCryptoPublicKey", [native |-> k],
                      [new |-> new, marshal |-> marshal, unmarshal |-> unmarshal,
                       crypto |-> CryptoPublicKey(unmarshal.val)]))))

CryptoPublicKeyCall(p) ==
    Called("PublicKey.CryptoPublicKey", [publicKey |-> p], CryptoPublicKey(p))

\* the preset entrypoints by the name of their variable, and entrypoints made
\* by NewNamedEntrypoint
Entrypoints ==
    {[var |-> "EntrypointDefault", e |-> EntrypointDefault],
     [var |-> "EntrypointRoot", e |-> EntrypointRoot],
     [var |-> "EntrypointDo", e |-> EntrypointDo],
     [var |-> "EntrypointSetDelegate", e |-> EntrypointSetDelegate],
     [var |-> "EntrypointRemoveDelegate", e |-> EntrypointRemoveDelegate],
     [var |-> "named", e |-> NewNamedEntrypoint(<<109, 97, 105, 110>>).val],
     [var |-> "named", e |-> NewNamedEntrypoint(<<>>).val]}

\* MarshalBinary and Name of one entrypoint
EntrypointMarshalAndName(entry) ==
    Called("Entrypoint.MarshalBinary", [var |-> entry.var, e |-> entry.e],
           [marshal |-> Entrypoint_MarshalBinary(entry.e), name |-> Entrypoint_Name(entry.e)])

\* the Entrypoint structs UnmarshalBinary is called on: a fresh one and one
\* that holds a name
EntrypointReceivers ==
    {ZeroEntrypoint, NewNamedEntrypoint(<<109, 97, 105, 110>>).val}

\* encodings of entrypoints, whole, cut short and followed by other bytes
EntrypointInputs ==
    { <<>>, <<EntrypointTagDefault>>, <<EntrypointTagSetDelegate>>, <<42>>,
      <<EntrypointTagRoot, 9>>,
      <<EntrypointTagNamed>>, <<EntrypointTagNamed, 0>>, <<EntrypointTagNamed, 0, 7>>,
      <<EntrypointTagNamed, 1, 5>>, <<EntrypointTagNamed, 2, 5>>,
      <<EntrypointTagNamed, 4, 116, 97, 100, 97>>,
      <<EntrypointTagNamed, 4, 116, 97, 100, 97, 0, 0, 0, 0>>,
      <<EntrypointTagNamed, 3, 2, 1, 0>> }

\* e.UnmarshalBinary(data), then e.Name() when the decode returned no error
EntrypointUnmarshalAndName(e, data) ==
    With(Entrypoint_UnmarshalBinary(e, data), LAMBDA decoded :
      Called("Entrypoint.UnmarshalBinary", [e |-> e, data |-> data],
             [unmarshal |-> decoded,
              name |-> IF decoded.st = "ok" THEN Entrypoint_Name(decoded.val)
                       ELSE NoResult]))

\* the encoding of a content whose fee is 1257, e9 09, with the fee written
\* with a redundant zero group, e9 89 00
RedundantFee(bytes) ==
    SubSeq(bytes, 1, 1 + TaggedPubKeyHashLen) \o <<233, 137, 0>>
        \o SubSeq(bytes, 4 + TaggedPubKeyHashLen, Len(bytes))

\* a public-key hash whose last byte is the tag of a Delegation
TagEndedHash ==
    B58String(PrefixEd25519PublicKeyHash,
              Rep(41, PubKeyHashLen - 1) \o <<ContentsTagDelegation>>)

\* operations as they arrive: encodings made by this library, and encodings
\* whose fee carries a redundant zero group, alone and followed by the rest
\* of another content
ReceivedOperations ==
    With([delegation |-> Content_MarshalBinary(MkDelegation(Tz2, 1257, Some(Tz1))).val,
          tagEnded |-> Content_MarshalBinary(MkDelegation(Tz2, 1257, Some(TagEndedHash))).val,
          undelegation |-> Content_MarshalBinary(MkDelegation(Tz1, 1257, Nil)).val,
          transaction |-> Content_MarshalBinary(MkTransaction(Tz1, 1257, KT1, Nil)).val,
          revelation |-> Content_MarshalBinary(MkRevelation(Tz1, 1257)).val],
         LAMBDA enc :
      { BranchBytes \o enc.delegation,
        BranchBytes \o enc.delegation \o enc.transaction,
        BranchBytes \o enc.revelation \o enc.tagEnded \o enc.undelegation,
        BranchBytes \o enc.tagEnded \o Tail(enc.undelegation),
        BranchBytes \o RedundantFee(enc.delegation),
        BranchBytes \o RedundantFee(enc.transaction),
        BranchBytes \o RedundantFee(enc.tagEnded) \o Tail(enc.undelegation),
        BranchBytes \o enc.revelation \o RedundantFee(enc.tagEnded)
            \o Tail(enc.transaction) })

\* o.UnmarshalBinary(data), with the rounds its loop went through
OperationUnmarshalRounds(data) ==
    Called("Operation.UnmarshalBinary", [data |-> data],
           [result |-> Operation_UnmarshalBinary(Slice(data, <<>>)),
            rounds |-> LoopRounds(SliceFrom(Slice(data, <<>>), BlockHashLen), 0, <<>>)])

\* the contents that encode: those whose source is implicit
EncodableContents == {c \in ContentPool : Content_MarshalBinary(c).st = "ok"}

\* bytes that follow a content in a buffer: one byte, the start of another
\* content, a run of zeros
TrailingBytes ==
    { <<0>>, <<255>>, <<ContentsTagDelegation, 0, 41>>, Rep(0, 8) }

\* a fresh struct of c's kind decodes c's encoding alone, and the same
\* encoding followed by trailing bytes
ContentUnmarshalTrailed(c, trailing) ==
    With(Content_MarshalBinary(c).val, LAMBDA encoding :
      Called("Content.UnmarshalBinary",
             [content |-> c, encoding |-> encoding, trailing |-> trailing],
             [alone |-> Content_UnmarshalBinary(ZeroContent(c.kind), Slice(encoding, <<>>)),
              trailed |-> Content_UnmarshalBinary(ZeroContent(c.kind),
                                                  Slice(encoding \o trailing, <<>>))]))

\* the encoding of a Transaction without parameters whose destination is an
\* originated contract, with the destination's padding byte set
PaddedDestination(bytes) == [bytes EXCEPT ![Len(bytes) - 1] = 9]

\* signed operations as they arrive: each received operation, a bare branch
\* and an operation with a padded destination, followed by 64 signature bytes
ReceivedSignedOperations ==
    { operation \o Rep(7, OperationSignatureLen) :
        operation \in ReceivedOperations \cup
            { BranchBytes,
              BranchBytes \o PaddedDestination(
                  Content_MarshalBinary(MkTransaction(Tz1, 1257, KT1, Nil)).val) } }

\* s.UnmarshalBinary(data), then s.MarshalBinary() and s.GetHash() when the
\* decode returned no error
SignedOperationReceive(data) ==
    With(SignedOperation_UnmarshalBinary(Slice(data, <<>>)), LAMBDA decoded :
      Called("SignedOperation.UnmarshalBinary", [data |-> data],
             [decoded |-> decoded,
              marshaled |-> IF decoded.st = "ok"
                            THEN SignedOperation_MarshalBinary(decoded.val)
                            ELSE NoResult,
              hash |-> IF decoded.st = "ok" THEN SignedOperation_GetHash(decoded.val)
                       ELSE NoResult]))

\* code and storage of a script
ScriptFields == { <<>>, <<3>>, <<3, 11>>, <<0, 0, 0, 0>> }

\* c.MarshalBinary(), then UnmarshalBinary of what it returned
ContractScriptRoundTrip(code, storage) ==
    With(ContractScript_MarshalBinary([Code |-> code, Storage |-> storage]),
         LAMBDA marshaled :
      Called("ContractScript.MarshalBinary", [Code |-> code, Storage |-> storage],
             [marshal |-> marshaled,
              unmarshal |-> IF marshaled.st = "ok"
                            THEN ContractScript_UnmarshalBinary(marshaled.val)
                            ELSE NoResult]))

\* encoded scripts as they arrive: whole, cut short, and with declared
\* lengths beyond the input
ScriptInputs ==
    { <<>>, <<0, 0, 0, 2>>, <<0, 0, 0, 2, 192, 222, 0>>,
      <<0, 0, 0, 2, 192, 222, 0, 0, 0, 7>>,
      <<0, 0, 0, 2, 192, 222, 0, 0, 0, 1, 7>>,
      <<0, 0, 0, 2, 192, 222, 0, 0, 0, 1, 7, 7>>,
      <<0, 0, 0, 2, 192, 222, 64, 0, 0, 0, 7>>,
      <<127, 255, 255, 255>>, <<127, 255, 255, 255, 1, 2, 3>> }

\* c.UnmarshalBinary(data), with the buffers it made
ContractScriptUnmarshalBinary(data) ==
    Called("ContractScript.UnmarshalBinary", [data |-> data],
           [result |-> ContractScript_UnmarshalBinary(data),
            buffers |-> ContractScript_BuffersMade(data)])

\* whether byte k + 1 of the encoding of content c, the first byte a prefix
\* of k bytes lacks, lies in a field of fixed size: the tag, the source, a
\* presence flag, the destination, the delegate, the public key, the level
\* or a 4-byte length; the zarith numbers, the parameters, the code and the
\* storage are of variable size
InFixedSizeField(c, encoding, k) ==
    IF c.kind = "Endorsement" \/ k < 1 + TaggedPubKeyHashLen THEN TRUE
    ELSE
      With(HeaderBytesRead(DispatchedTag(c.kind), Slice(encoding, <<>>)), LAMBDA header :
        IF k < header THEN FALSE
        ELSE IF c.kind \in {"Revelation", "Delegation"} THEN TRUE
        ELSE
          With(header + ReadNext(SubSeq(encoding, header + 1, Len(encoding))).n,
               LAMBDA numbers :
            IF k < numbers THEN FALSE
            ELSE IF c.kind = "Transaction" THEN k <= numbers + ContractIDLen
            ELSE
              With(numbers + DelegateBytesRead(
                                 Slice(SubSeq(encoding, numbers + 1, Len(encoding)), <<>>)),
                   LAMBDA delegate :
                \/ k < delegate + 4
                \/ /\ k >= delegate + 4 + Len(c.Script.Code)
                   /\ k < delegate + 8 + Len(c.Script.Code))))

\* a fresh struct of c's kind decodes the first k bytes of c's encoding: as
\* a buffer of their own (whole = FALSE) or as encoding[:k], a slice of the
\* whole encoding, with the rest of it behind the slice (whole = TRUE)
ContentUnmarshalPrefix(c, k, whole) ==
    With(Content_MarshalBinary(c).val, LAMBDA encoding :
      /\ k < Len(encoding)
      /\ Called("Content.UnmarshalBinary prefix",
                [content |-> c, k |-> k, whole |-> whole,
                 fixed |-> InFixedSizeField(c, encoding, k)],
                [result |-> Content_UnmarshalBinary(
                                ZeroContent(c.kind),
                                Slice(SubSeq(encoding, 1, k),
                                      IF whole THEN SubSeq(encoding, k + 1, Len(encoding))
                                      ELSE <<>>))]))

\* structs that already hold an optional field
HoldingReceivers ==
    { [kind |-> "Transaction", Parameters |-> Some(DoParameters)],
      [kind |-> "Origination", Delegate |-> Some(Tz1)],
      [kind |-> "Delegation", Delegate |-> Some(Tz1)] }

\* c's encoding decoded into a fresh struct and into one that holds a field
ContentUnmarshalInto(c, recv) ==
    With(Slice(Content_MarshalBinary(c).val, <<>>), LAMBDA data :
      /\ recv.kind = c.kind
      /\ Called("Content.UnmarshalBinary into", [content |-> c, recv |-> recv],
                [fresh |-> Content_UnmarshalBinary(ZeroContent(c.kind), data),
                 held |-> Content_UnmarshalBinary(recv, data)]))

\* encoded parameters decoded into a fresh TransactionParameters and into
\* one whose entrypoint holds a name
ParametersUnmarshalInto(entrypoint) ==
    With(Slice(TransactionParameters_MarshalBinary(
                   [Entrypoint |-> entrypoint, Value |-> <<2, 0, 0>>]).val, <<>>),
         LAMBDA data :
      Called("TransactionParameters.UnmarshalBinary into",
             [entrypoint |-> entrypoint],
             [fresh |-> TransactionParameters_UnmarshalBinary(
                            [Entrypoint |-> ZeroEntrypoint, Value |-> <<>>], data),
              held |-> TransactionParameters_UnmarshalBinary(
                           [Entrypoint |-> NewNamedEntrypoint(<<109, 97, 105, 110>>).val,
                            Value |-> <<>>], data)]))

\* NewPublicKeyFromCryptoPublicKey(k), then CryptoPublicKey() of the result
NativeToPublicKeyAndBack(k) ==
    With(NewPublicKeyFromCryptoPublicKey(k), LAMBDA new :
      Called("NewPublicKeyFromCryptoPublicKey, CryptoPublicKey", [native |-> k],
             [new |-> new,
              crypto |-> IF new.st = "ok" THEN CryptoPublicKey(new.val) ELSE NoResult]))

\* p.CryptoPublicKey(), then NewPublicKeyFromCryptoPublicKey of the result
PublicKeyToNativeAndBack(p) ==
    With(CryptoPublicKey(p), LAMBDA crypto :
      Called("CryptoPublicKey, NewPublicKeyFromCryptoPublicKey", [publicKey |-> p],
             [crypto |-> crypto,
              new |-> IF crypto.st = "ok" THEN NewPublicKeyFromCryptoPublicKey(crypto.val)
                      ELSE NoResult]))

\* one library call, once: nothing is called after a call has returned
LibNext ==
    /\ call.fn = "none"
    /\ \/ \E n \in ReadValues, extra \in Extras : ZReadNextEncoded(n, extra)
       \/ \E stream \in Streams : ZReadNext(stream)
       \/ \E stream \in Streams : ZReadNextSigned(stream)
       \/ \E b \in 0..(Len(base58CheckPrefixInfos) - 1) :
             \E input \in PayloadsFor(b) \cup WrongPayloadsFor(b) : B58Encode(b, input)
       \/ \E b \in 0..(Len(base58CheckPrefixInfos) - 1) :
             \E input \in PayloadsFor(b) : B58DecodeEncoded(b, input)
       \/ \E b \in 0..(Len(base58CheckPrefixInfos) - 1) :
             \E input \in PayloadsFor(b), i \in 1..4, delta \in ChecksumDeltas :
                B58DecodeCorrupted(b, input, i, delta)
       \/ \E body \in UnregisteredBodies : B58DecodeChecksummed("unregistered", body)
       \/ \E b \in 0..(Len(base58CheckPrefixInfos) - 1) :
             \E input \in WrongPayloadsFor(b) :
                B58DecodeChecksummed("wrong length", PrefixBytes(b) \o input)
       \/ \E str \in {<<>>, <<1>>, <<1, 52, 0, 0>>} : B58DecodeShort(str)
       \/ \E data \in ContractIDInputs : ContractIDUnmarshalBinary(data)
       \/ \E message \in Messages, privateKey \in PrivateKeys : SignMessageCall(message, privateKey)
       \/ \E operation \in SignableOperations, privateKey \in PrivateKeys :
             SignOperationAlone(operation, privateKey)
       \/ \E message \in Messages, seed \in KeySeeds : SignVerifyMessage(message, seed)
       \/ \E operation \in SignableOperations, seed \in KeySeeds :
             SignVerifyOperation(operation, seed)
       \/ \E message \in Messages, seed \in KeySeeds, relabel \in RelabelPrefixes :
             \E publicKey \in Ed25519PublicKeys \cup OtherPublicKeys :
                VerifyRelabelled(message, seed, relabel, publicKey)
       \/ \E message \in Messages, signature \in {Tz1, <<>>, <<4, 130, 43, 0, 0, 0, 0>>} :
             \E publicKey \in Ed25519PublicKeys \cup OtherPublicKeys :
                VerifyOther(message, signature, publicKey)
       \/ \E k \in NativePublicKeys : PublicKeyFromNative(k)
       \/ \E p \in PublicKeyStrings : CryptoPublicKeyCall(p)
       \/ \E entry \in Entrypoints : EntrypointMarshalAndName(entry)
       \/ \E k \in NativePublicKeys : NativeToPublicKeyAndBack(k)
       \/ \E p \in PublicKeyStrings : PublicKeyToNativeAndBack(p)
       \/ \E c \in EncodableContents, recv \in HoldingReceivers :
             ContentUnmarshalInto(c, recv)
       \/ \E entry \in Entrypoints : ParametersUnmarshalInto(entry.e)
       \/ \E c \in EncodableContents, k \in 0..MaxPrefix, whole \in BOOLEAN :
             ContentUnmarshalPrefix(c, k, whole)
       \/ \E code \in ScriptFields, storage \in ScriptFields :
             ContractScriptRoundTrip(code, storage)
       \/ \E data \in ScriptInputs : ContractScriptUnmarshalBinary(data)
       \/ \E data \in ReceivedSignedOperations : SignedOperationReceive(data)
       \/ \E c \in EncodableContents, trailing \in TrailingBytes :
             ContentUnmarshalTrailed(c, trailing)
       \/ \E data \in ReceivedOperations : OperationUnmarshalRounds(data)
       \/ \E e \in EntrypointReceivers, data \in EntrypointInputs :
             EntrypointUnmarshalAndName(e, data)

SpecLib == Init /\ [][LibNext]_vars

\* the program before its package-level variables are initialised
RegistryInit ==
    /\ OpIdle
    /\ ZIdle
    /\ call = [fn |-> "none", in |-> <<>>, out |-> NoResult]
    /\ registry = <<>>

\* every package-level registerBase58CheckPrefix call has run
Initialised == Len(registry) = Len(base58CheckPrefixInfos)

\* the next package-level registerBase58CheckPrefix call, in source order
registerBase58CheckPrefix ==
    /\ ~Initialised
    /\ base58CheckPrefixInfos[Len(registry) + 1].payloadLength # 0
    /\ registry' = RegisterEntry(registry, base58CheckPrefixInfos[Len(registry) + 1])
    /\ UNCHANGED <<zvars, opvars, call>>

RegistryNext ==
    \/ registerBase58CheckPrefix
    \/ Initialised /\ LibNext

SpecRegistry == RegistryInit /\ [][RegistryNext]_vars

----------------------------------------------------------------------------
(* Claims about the zarith codec *)

\* C8: decoding what the unsigned encoder produced for a non-negative n gives
\* n back, and decoding what the signed encoder produced for any n gives n back
C8_ZarithRoundTrip ==
    /\ (zenc.kind = "unsigned" /\ zval >= 0 => zenc.res.err = "")
    /\ (zenc.kind = "signed" => zenc.res.err = "")
    /\ (zdec.kind = "unsigned" => zdec.res.err = "" /\ zdec.res.val = zval)
    /\ (zdec.kind = "signed" => zdec.res.err = "" /\ zdec.res.val = zval)

C8_Witness ==
    /\ zdec.kind = "signed"
    /\ zval = 0 - 120053
    /\ zenc.res.val = <<245, 211, 14>>
    /\ zdec.res.val = zval

\* C9: Encode(n) for n >= 0 is the 7-bit groups of n, least significant group
\* first, in exactly ceil(bitlength(n)/7) bytes (one 0x00 byte for 0), the high
\* bit set on every byte but the last; Encode of a negative n is an error
C9_EncodeLayout ==
    zenc.kind = "unsigned" =>
        IF zval < 0 THEN zenc.res.err # ""
        ELSE /\ zenc.res.err = ""
             /\ LET out == zenc.res.val
                    n == IF zval = 0 THEN 1 ELSE (BitLength(zval) + 6) \div 7
                IN /\ Len(out) = n
                   /\ \A i \in 1..n :
                        out[i] = ((zval \div Pow(128, i - 1)) % 128)
                                    + (IF i < n THEN 128 ELSE 0)

C9_Witness ==
    /\ zenc.kind = "unsigned"
    /\ zval = 50000
    /\ zenc.res.val = <<208, 134, 3>>

\* C10: EncodeSigned(n) is the minimal signed encoding: byte 1 carries the
\* sign in bit 6 and the low 6 bits of |n|, byte i > 1 the next 7 bits, the
\* high bit is set on every byte but the last, and a multi-byte encoding never
\* ends in 0x00 (1000000 is 80 89 7a, -64 is c0 01)
C10_EncodeSignedMinimal ==
    zenc.kind = "signed" =>
        /\ zenc.res.err = ""
        /\ LET out == zenc.res.val
               n == Len(out)
               a == Abs(zval)
               cont(i) == IF i < n THEN 128 ELSE 0
           IN /\ out[1] = cont(1) + (IF zval < 0 THEN 64 ELSE 0) + (a % 64)
              /\ \A i \in 2..n :
                    out[i] = cont(i) + ((a \div (64 * Pow(128, i - 2))) % 128)
              /\ (n > 1 => out[n] # 0)
              /\ (zval = 1000000 => out = <<128, 137, 122>>)
              /\ (zval = 0 - 64 => out = <<192, 1>>)

----------------------------------------------------------------------------
(* Claims about operations and signed operations *)

\* the tags of the five content kinds
FiveContentTags ==
    {ContentsTagRevelation, ContentsTagTransaction, ContentsTagOrigination,
     ContentsTagDelegation, ContentsTagEndorsement}

\* the Base58Check prefix of a well-formed string
PrefixOf(str) == Base58CheckDecode(str).val.prefix

\* the raw payload of a well-formed Base58Check string
PayloadOf(str) == Base58CheckDecode(str).val.payload

\* C1: every Operation with a non-empty contents list of any of the five
\* kinds, once encoded by Operation.MarshalBinary, is decoded by
\* Operation.UnmarshalBinary without error into a value equal to it
C1_OperationRoundTrip ==
    (res.fn = "Operation.UnmarshalBinary" /\ wire.src = "Operation.MarshalBinary")
        => (res.out.st = "ok" /\ res.out.val = op)

\* C2: the bytes of a signed operation are the operation's encoding followed
\* by the 64 raw signature bytes, and decoding them gives the operation back
\* together with a signature of the same raw bytes
C2_SignedOperationRoundTrip ==
    /\ wire.src = "SignedOperation.MarshalBinary" =>
          /\ wire.out.st = "ok"
          /\ Len(PayloadOf(signed.val.Signature)) = 64
          /\ wire.out.val = Operation_MarshalBinary(op).val \o PayloadOf(signed.val.Signature)
    /\ (res.fn = "SignedOperation.UnmarshalBinary"
            /\ wire.src = "SignedOperation.MarshalBinary") =>
          /\ res.out.st = "ok"
          /\ res.out.val.Operation = op
          /\ PayloadOf(res.out.val.Signature) = PayloadOf(signed.val.Signature)

\* the positions of the contents that expose a source that is an implicit account
ImplicitSourced(contents) ==
    {i \in 1..Len(contents) :
        /\ contents[i].kind # "Endorsement"
        /\ PrefixOf(contents[i].Source) # PrefixContractHash}

\* C3: after a successful SignedOperation.UnmarshalBinary the signature's
\* prefix follows the first content with an implicit source (tz1: Ed25519,
\* tz2: secp256k1, tz3: P256), and is the generic one when there is none
C3_SignaturePrefixInferred ==
    (res.fn = "SignedOperation.UnmarshalBinary" /\ res.out.st = "ok") =>
        LET contents == res.out.val.Operation.Contents
            found == ImplicitSourced(contents)
            sigPrefix == PrefixOf(res.out.val.Signature)
        IN IF found = {} THEN sigPrefix = PrefixGenericSignature
           ELSE LET first == CHOOSE i \in found : \A j \in found : i <= j
                    source == contents[first].Source
                IN /\ source \in {Tz1, Tz2, Tz3}
                   /\ source = Tz1 => sigPrefix = PrefixEd25519Signature
                   /\ source = Tz2 => sigPrefix = PrefixSecp256k1Signature
                   /\ source = Tz3 => sigPrefix = PrefixP256Signature

C3_Witness ==
    /\ res.fn = "SignedOperation.UnmarshalBinary"
    /\ res.out.st = "ok"
    /\ Len(res.out.val.Operation.Contents) = 2
    /\ res.out.val.Operation.Contents[1].Source = Tz3
    /\ res.out.val.Operation.Contents[2].Source = Tz2
    /\ PrefixOf(res.out.val.Signature) = PrefixP256Signature

\* C4: after the 32-byte branch, a leading tag byte of any of the five content
\* kinds is dispatched to that kind's decoder and never reported as an
\* unexpected tag; any other leading tag byte makes the decode fail
C4_DispatchOnTag ==
    (res.fn = "Operation.UnmarshalBinary" /\ SLen(wire.data) > BlockHashLen) =>
        IF wire.data.b[BlockHashLen + 1] \in FiveContentTags
        THEN res.out.msg # "unexpected content tag"
        ELSE res.out.st = "err"

\* C5: Operation.MarshalBinary fails on an empty contents list, and otherwise
\* returns the 32 branch bytes followed by the encodings of the contents in
\* list order
C5_MarshalLayout ==
    wire.src = "Operation.MarshalBinary" =>
        LET encodings == [i \in 1..Len(op.Contents) |-> Content_MarshalBinary(op.Contents[i])]
        IN IF op.Contents = <<>> THEN wire.out.st = "err"
           ELSE IF \E i \in 1..Len(encodings) : encodings[i].st # "ok"
           THEN wire.out.st = "err"
           ELSE /\ wire.out.st = "ok"
                /\ Len(PayloadOf(op.Branch)) = 32
                /\ wire.out.val = PayloadOf(op.Branch)
                       \o Concat([i \in 1..Len(encodings) |-> encodings[i].val])

C5_Witness ==
    /\ wire.src = "Operation.MarshalBinary"
    /\ wire.out.st = "ok"
    /\ Len(op.Contents) = 2
    /\ op.Contents[1].kind = "Transaction"
    /\ op.Contents[2].kind = "Revelation"
    /\ wire.out.val[BlockHashLen + 1] = ContentsTagTransaction

\* C6: Operation.UnmarshalBinary and the decoder of each content kind, given
\* a zero-length buffer, return the normalized out-of-bounds error; no fault
\* reaches the caller
C6_EmptyBufferOutOfBounds ==
    (res.fn \in {"Operation.UnmarshalBinary", "Content.UnmarshalBinary"}
        /\ SLen(wire.data) = 0) => res.out.st = "oob"

C6_Witness ==
    /\ res.fn = "Operation.UnmarshalBinary"
    /\ SLen(wire.data) = 0
    /\ SCap(wire.data) >= BlockHashLen
    /\ res.out.st = "oob"

\* C7: a Revelation, Transaction, Origination or Delegation with an originated
\* (KT1) source does not encode; with an implicit source the 21 bytes after
\* the tag byte are the curve tag and the 20-byte hash of the source
C7_SourceMustBeImplicit ==
    (wire.src = "Content.MarshalBinary" /\ single.kind # "Endorsement") =>
        IF PrefixOf(single.Source) = PrefixContractHash THEN wire.out.st = "err"
        ELSE /\ wire.out.st = "ok"
             /\ Len(PayloadOf(single.Source)) = 20
             /\ SubSeq(wire.out.val, 2, 22) =
                   << IF single.Source = Tz1 THEN 0 ELSE IF single.Source = Tz2 THEN 1 ELSE 2 >>
                   \o PayloadOf(single.Source)

C7_Witness ==
    /\ wire.src = "Content.MarshalBinary"
    /\ single.kind = "Transaction"
    /\ single.Source = Tz2
    /\ wire.out.st = "ok"
    /\ SubSeq(wire.out.val, 1, 22) = <<ContentsTagTransaction, 1>> \o Rep(42, 20)

----------------------------------------------------------------------------
(* Claims about library functions *)

\* C11: ReadNext on Encode(n) followed by any extra bytes returns n and the
\* length of Encode(n); ReadNext and ReadNextSigned fail on a stream with no
\* byte whose high bit is clear, the empty stream included
C11_ReadNextStopsAtTerminator ==
    /\ (call.fn = "ReadNext" /\ call.in.kind = "encoded") =>
          /\ call.out.st = "ok"
          /\ call.out.val = call.in.n
          /\ call.out.n = Len(Encode(call.in.n).val)
    /\ (call.fn \in {"ReadNext", "ReadNextSigned"}
            /\ \A i \in 1..Len(call.in.stream) : call.in.stream[i] >= 128) =>
          call.out.st = "err"

C11_Witness ==
    /\ call.fn = "ReadNext"
    /\ call.in.kind = "encoded"
    /\ call.in.n = 50000
    /\ call.in.extra = <<129, 0, 7>>
    /\ call.out.val = 50000
    /\ call.out.n = 3

\* C12: for every registered prefix p and every payload b of p's payload
\* length, Base58CheckDecode of Base58CheckEncode(p, b) succeeds and returns
\* exactly (p, b)
C12_Base58CheckRoundTrip ==
    (call.fn = "Base58CheckDecode" /\ call.in.kind = "encoded") =>
        /\ call.out.st = "ok"
        /\ call.out.val.prefix = call.in.prefix
        /\ call.out.val.payload = call.in.payload

C12_Witness ==
    /\ call.fn = "Base58CheckDecode"
    /\ call.in.kind = "encoded"
    /\ call.in.prefix = PrefixEd25519PublicKeyHash
    /\ call.in.payload = <<0, 121>> \o Rep(255, 18)
    /\ call.out.st = "ok"
    /\ call.out.val.payload = call.in.payload

\* C13: on a string of at least 5 bytes Base58CheckDecode fails with a
\* checksum error when the last 4 bytes are not the checksum of the bytes
\* before them; with a valid checksum it fails with an unknown-prefix error
\* when no registered prefix starts the data, and with a length error when the
\* bytes after the first matching prefix are not as many as its payload length
C13_Base58CheckDecodeErrors ==
    (call.fn = "Base58CheckDecode" /\ Len(call.in.str) >= 5) =>
        LET str == call.in.str
            body == SubSeq(str, 1, Len(str) - 4)
            matching == {k \in 0..(Len(base58CheckPrefixInfos) - 1) :
                            HasPrefix(body, base58CheckPrefixInfos[k + 1].prefixBytes)}
        IN /\ call.in.kind = "corrupted" => SubSeq(str, Len(str) - 3, Len(str)) # checksum(body)
           /\ IF SubSeq(str, Len(str) - 3, Len(str)) # checksum(body)
              THEN call.out.st = "err" /\ call.out.msg = "b58check checksum failed"
              ELSE IF matching = {}
              THEN call.out.st = "err" /\ call.out.msg = "unknown base58check prefix"
              ELSE LET first == CHOOSE k \in matching : \A j \in matching : k <= j
                       info == base58CheckPrefixInfos[first + 1]
                   IN Len(body) - Len(info.prefixBytes) # info.payloadLength =>
                         /\ call.out.st = "err"
                         /\ call.out.msg = "unexpected length when decoding base58 input"

C13_Witness ==
    /\ call.fn = "Base58CheckDecode"
    /\ call.in.kind = "corrupted"
    /\ call.in.prefix = PrefixEd25519PublicKeyHash
    /\ call.in.str[Len(call.in.str)] # Base58CheckEncode(call.in.prefix, call.in.payload).val[Len(call.in.str)]
    /\ call.out.msg = "b58check checksum failed"

\* C14: once static initialisation is over the prefix table holds exactly 26
\* entries, each with a non-zero payload length and an id equal to its
\* position of registration, and it is the same table after any library call
C14_RegistryHas26Entries ==
    Initialised =>
        /\ Len(registry) = 26
        /\ \A k \in 1..Len(registry) :
              registry[k].payloadLength # 0 /\ registry[k].id = k - 1
        /\ call.fn # "none" => registry = RegisterFirst(Len(base58CheckPrefixInfos))

\* C14 (amended): as C14, with 28 entries in the table
C14_RegistryHas28Entries ==
    Initialised =>
        /\ Len(registry) = 28
        /\ \A k \in 1..Len(registry) :
              registry[k].payloadLength # 0 /\ registry[k].id = k - 1
        /\ \A k \in 1..Len(registry) :
              /\ registry[k].prefixBytes = base58CheckPrefixInfos[k].prefixBytes
              /\ registry[k].payloadLength = base58CheckPrefixInfos[k].payloadLength
        /\ call.fn # "none" => registry = RegisterFirst(Len(base58CheckPrefixInfos))

C14_Witness ==
    /\ Initialised
    /\ registry[28].id = 27
    /\ registry[28].prefixBytes = <<2, 90, 121>>
    /\ call.fn = "Base58CheckDecode"
    /\ call.out.st = "ok"

\* C15: ContractID.UnmarshalBinary rejects every input that is neither 22 nor
\* 21 bytes long, and on a 21-byte input d returns what it returns on the
\* 22-byte input 0x00 || d: when that is an id, an implicit account whose
\* hash is the last 20 bytes of d
C15_TaggedPubKeyHashAccepted ==
    call.fn = "ContractID.UnmarshalBinary" =>
        LET data == call.in.data
        IN /\ Len(data) \notin {ContractIDLen, TaggedPubKeyHashLen} => call.out.st = "err"
           /\ Len(data) = TaggedPubKeyHashLen =>
                 /\ call.out = ContractID_UnmarshalBinary(<<ContractIDTagImplicit>> \o data)
                 /\ data[1] \in {PubKeyHashTagEd25519, PubKeyHashTagSecp256k1, PubKeyHashTagP256}
                       => /\ call.out.st = "ok"
                          /\ IsPubKeyHashPrefix(PrefixOf(call.out.val))
                          /\ PayloadOf(call.out.val) = SubSeq(data, 2, TaggedPubKeyHashLen)

C15_Witness ==
    /\ call.fn = "ContractID.UnmarshalBinary"
    /\ call.in.data = <<2>> \o Rep(200, PubKeyHashLen)
    /\ call.out.st = "ok"
    /\ PrefixOf(call.out.val) = PrefixP256PublicKeyHash
    /\ PayloadOf(call.out.val) = Rep(200, PubKeyHashLen)

\* C16: SignOperation and SignMessage with a secp256k1 or a P256 private key
\* succeed and return a signature under the generic signature prefix
C16_EcdsaSigningIsGeneric ==
    (call.fn \in {"SignMessage", "SignOperation"}
        /\ call.in.privateKey \in {Secp256k1PrivateKey, P256PrivateKey}
        /\ (call.fn = "SignOperation" => Operation_MarshalBinary(call.in.operation).st = "ok")) =>
        /\ call.out.st = "ok"
        /\ PrefixOf(IF call.fn = "SignMessage" THEN call.out.val ELSE call.out.val.Signature)
              = PrefixGenericSignature

C19_P256PublicKeyNotNative ==
    /\ (call.fn = "PublicKey.CryptoPublicKey"
            /\ Base58CheckDecode(call.in.publicKey).st = "ok") =>
          LET prefix == PrefixOf(call.in.publicKey)
              payload == PayloadOf(call.in.publicKey)
          IN /\ prefix = PrefixEd25519PublicKey =>
                   call.out.st = "ok" /\ call.out.val.key = payload
             /\ (prefix = PrefixSecp256k1PublicKey
                     /\ payload[1] \in {2, 3} /\ Tail(payload) \in CurveXs) =>
                   call.out.st = "ok" /\ call.out.val.X = Tail(payload)
             /\ prefix = PrefixP256PublicKey => call.out.st = "err"
    /\ (call.fn = "NewPublicKeyFromCryptoPublicKey"
            /\ call.in.native.type = "ecdsa.PublicKey"
            /\ call.in.native.curve = "P256") =>
          /\ call.out.new.st = "ok"
          /\ PrefixOf(call.out.new.val) = PrefixP256PublicKey
          /\ call.out.marshal.st = "ok"
          /\ call.out.unmarshal.st = "ok"
          /\ call.out.unmarshal.val = call.out.new.val
          /\ call.out.crypto.st = "err"

C19_Witness ==
    /\ call.fn = "NewPublicKeyFromCryptoPublicKey"
    /\ call.in.native.type = "ecdsa.PublicKey"
    /\ call.in.native.curve = "P256"
    /\ call.out.marshal.st = "ok"
    /\ call.out.marshal.val[1] = PubKeyTagP256
    /\ call.out.crypto.msg = "unable to deserialize compressed P256 keys"

\* the tag byte and the name reserved for each preset entrypoint
ReservedEntrypoints ==
    [EntrypointDefault |-> [tag |-> 0, name |-> "default"],
     EntrypointRoot |-> [tag |-> 1, name |-> "root"],
     EntrypointDo |-> [tag |-> 2, name |-> "do"],
     EntrypointSetDelegate |-> [tag |-> 3, name |-> "set_delegate"],
     EntrypointRemoveDelegate |-> [tag |-> 4, name |-> "remove_delegate"]]

\* C20: each of the five preset entrypoints marshals to its own reserved tag
\* byte (0, 1, 2, 3, 4) and Name() on it returns its own reserved name
C20_PresetEntrypoints ==
    (call.fn = "Entrypoint.MarshalBinary" /\ call.in.var \in DOMAIN ReservedEntrypoints) =>
        /\ call.out.marshal = Ok(<<ReservedEntrypoints[call.in.var].tag>>)
        /\ call.out.name = Ok(ReservedEntrypoints[call.in.var].name)

\* C21: Entrypoint.UnmarshalBinary accepts the named tag 255 followed by a
\* declared name length of 0, and Name() on the decoded entrypoint then
\* returns an error; for a named tag with a declared length L > 0 and at least
\* L bytes behind the length byte, Name() returns exactly those L bytes
C21_NamedEntrypointName ==
    (/\ call.fn = "Entrypoint.UnmarshalBinary"
     /\ Len(call.in.data) >= 2
     /\ call.in.data[1] = EntrypointTagNamed
     /\ Len(call.in.data) - 2 >= call.in.data[2]) =>
        /\ call.out.unmarshal.st = "ok"
        /\ IF call.in.data[2] = 0
           THEN call.out.name.st = "err"
           ELSE call.out.name = Ok(SubSeq(call.in.data, 3, 2 + call.in.data[2]))

\* both cases decoded into a struct that held another name: the empty name,
\* and a name followed by bytes that are not part of it
C21_Witness ==
    /\ call.fn = "Entrypoint.UnmarshalBinary"
    /\ call.in.e.name # <<>>
    /\ call.out.unmarshal.st = "ok"
    /\ \/ call.in.data = <<EntrypointTagNamed, 0, 7>> /\ call.out.name.st = "err"
       \/ /\ call.in.data = <<EntrypointTagNamed, 4, 116, 97, 100, 97, 0, 0, 0, 0>>
          /\ call.out.name = Ok(<<116, 97, 100, 97>>)

\* C22: for every input Operation.UnmarshalBinary accepts, each content
\* decoder read exactly the bytes from the tag examined for it up to the tag
\* examined next (up to the end of the input for the last one), so every
\* byte after the branch was read for exactly one content
C22_AdvanceByBytesRead ==
    (call.fn = "Operation.UnmarshalBinary" /\ call.out.result.st = "ok") =>
        \A i \in DOMAIN call.out.rounds :
            call.out.rounds[i].at + call.out.rounds[i].read =
                IF i < Len(call.out.rounds) THEN call.out.rounds[i + 1].at
                ELSE Len(call.in.data) - BlockHashLen

\* C23: each content decoder, given a valid encoding followed by trailing
\* bytes, succeeds and returns the value it returns for the encoding alone
C23_TrailingBytesLeftToCaller ==
    call.fn = "Content.UnmarshalBinary" =>
        /\ call.out.trailed.st = "ok"
        /\ call.out.trailed = call.out.alone

\* C24: every Operation a successful Operation.UnmarshalBinary produces, and
\* every Operation inside a successfully decoded SignedOperation, has at
\* least one content
C24_DecodedOperationHasContent ==
    /\ (res.fn = "Operation.UnmarshalBinary" /\ res.out.st = "ok") =>
           Len(res.out.val.Contents) >= 1
    /\ (res.fn = "SignedOperation.UnmarshalBinary" /\ res.out.st = "ok") =>
           Len(res.out.val.Operation.Contents) >= 1

\* C25: for every byte string SignedOperation.UnmarshalBinary accepts,
\* MarshalBinary of the decoded value returns that byte string, and GetHash
\* returns the operation hash of the digest of the bytes received
C25_HashOfBytesReceived ==
    (call.fn = "SignedOperation.UnmarshalBinary" /\ call.out.decoded.st = "ok") =>
        /\ call.out.marshaled = Ok(call.in.data)
        /\ call.out.hash =
               Base58CheckEncode(PrefixOperationHash, Digest(call.in.data, 32))

\* C26: for code and storage of at most 2^30 - 1 bytes each, empty ones
\* included, UnmarshalBinary of MarshalBinary of the script succeeds and
\* returns the same code and storage
C26_ContractScriptRoundTrip ==
    (/\ call.fn = "ContractScript.MarshalBinary"
     /\ Len(call.in.Code) <= maxUint30 /\ Len(call.in.Storage) <= maxUint30) =>
        /\ call.out.marshal.st = "ok"
        /\ call.out.unmarshal = Ok([Code |-> call.in.Code, Storage |-> call.in.Storage])

\* C27: ContractScript.UnmarshalBinary never makes a buffer larger than the
\* number of input bytes that remain behind the declared length
C27_AllocationBoundedByInput ==
    call.fn = "ContractScript.UnmarshalBinary" =>
        \A i \in DOMAIN call.out.buffers :
            call.out.buffers[i].size <= call.out.buffers[i].remaining

\* C28: for each content decoder and every proper prefix of a valid content
\* encoding, decoding the prefix returns an error value, never a decoded
\* content and never a fault that goes on unwinding; when the first missing
\* byte lies in a field of fixed size the error is the normalized
\* out-of-bounds error
C28_ProperPrefixRejected ==
    call.fn = "Content.UnmarshalBinary prefix" =>
        /\ call.out.result.st \in {"err", "oob"}
        /\ call.in.fixed => call.out.result.st = "oob"

\* C29: a successful decode gives a value that depends on the input bytes
\* only: the same bytes decoded into a fresh struct and into a struct that
\* already holds parameters, a delegate or an entrypoint name give equal
\* results
C29_ReceiverIndependence ==
    (/\ call.fn \in {"Content.UnmarshalBinary into",
                      "TransactionParameters.UnmarshalBinary into"}
     /\ call.out.fresh.st = "ok" \/ call.out.held.st = "ok") =>
        call.out.held = call.out.fresh

\* two native keys are the same key: the same bytes, or the same point of the
\* same curve, whether held by value or through a pointer
SameNativeKey(a, b) ==
    IF a.type = "ed25519.PublicKey" THEN b.type = "ed25519.PublicKey" /\ b.key = a.key
    ELSE /\ b.type \in {"ecdsa.PublicKey", "*ecdsa.PublicKey"}
         /\ b.curve = a.curve /\ b.X = a.X /\ b.Y = a.Y

\* C30: for every Ed25519 or secp256k1 native public key k,
\* NewPublicKeyFromCryptoPublicKey(k) followed by CryptoPublicKey() returns a
\* key equal to k; for every Ed25519 or secp256k1 PublicKey p,
\* NewPublicKeyFromCryptoPublicKey of p.CryptoPublicKey() succeeds and
\* returns p
C30_PublicKeyConversionsInverse ==
    /\ (/\ call.fn = "NewPublicKeyFromCryptoPublicKey, CryptoPublicKey"
        /\ \/ call.in.native.type = "ed25519.PublicKey"
           \/ /\ call.in.native.type \in {"ecdsa.PublicKey", "*ecdsa.PublicKey"}
              /\ call.in.native.curve = "S256") =>
          /\ call.out.new.st = "ok"
          /\ call.out.crypto.st = "ok"
          /\ SameNativeKey(call.in.native, call.out.crypto.val)
    /\ (/\ call.fn = "CryptoPublicKey, NewPublicKeyFromCryptoPublicKey"
        /\ call.out.crypto.st = "ok") =>
          call.out.new = Ok(call.in.publicKey)

====
